---- MODULE Spec2Model ----
(***************************************************************************)
(* Trace-span filtering of the trace view: the structured matcher          *)
(* filterSpansNewTraceView(searchProps, spans) and the free-text matcher   *)
(* filterSpans(textFilter, spans), with the fixtures and the expectations  *)
(* of their test suite (filter-spans.test, src/unnamed/part_001).          *)
(*                                                                         *)
(* The matchers (./filter-spans) and the defaults of useSearch are         *)
(* modelled after spec.md sections 3 and 4; where spec.md and an assertion *)
(* of the test suite disagree, the test suite decides.  JavaScript values  *)
(* are modelled as follows: a string is a TLA+ string (equality and        *)
(* substring are case-sensitive, character by character), an array is      *)
(* Arr(<<...>>), null/undefined is Null, a Set of span ids is SetOf(S).    *)
(***************************************************************************)
EXTENDS Integers, Sequences, FiniteSets, TLC

VARIABLES
    spans,       \* the `spans` argument: Null or Arr(sequence of spans)
    op,          \* the matcher invoked last: "none" before any invocation
    search,      \* the `searchProps` argument of the last structured match
    textFilter,  \* the `textFilter` argument of the last free-text match
    result,      \* what the last invocation returned (or threw)
    expected,    \* what the test suite asserts for this invocation, if it is one
    phase,       \* "idle", or where the caller is with its invocation: "first" result,
                 \* or "repeated" with the same arguments
    spanArg,     \* the `span` argument of the last attributePairs call, or Null
    other,       \* the invocation of a second, independent caller: what it passed and
                 \* what it was returned, or NoCall
    panes,       \* getState().explore.panes: the left and the right pane, or undefined
    orgId,       \* getState().user.orgId
    location,    \* the location service: the search parameters of the URL, the number
                 \* of history entries and the number of calls of location.partial
    listeners,   \* the instances of the listener effect that have not ended: the
                 \* action of each, the time its delay still takes, whether cancelled
    actions,     \* the types of the actions dispatched so far, in order
    synced,      \* the number of the action whose effect read the state last
    options,     \* the options of the calculateField transformer, or Undefined
    data,        \* the frames that reach the transformer's map callback
    transformed, \* what the map callback returned (or threw), or NoCall
    namespaces,  \* the `namespaces` prop of RuleStats
    rendered     \* what RuleStats returned for it, or NoCall

matcherVars == <<spans, op, search, textFilter, result, expected, phase, spanArg, other>>
syncVars == <<panes, orgId, location, listeners, actions, synced>>
calcVars == <<options, data, transformed>>
statsVars == <<namespaces, rendered>>
vars == <<matcherVars, syncVars, calcVars, statsVars>>

\* the state that an invocation of the first caller leaves alone
beyondCaller == <<other, syncVars, calcVars, statsVars>>

(***************************************************************************)
(* Bounds of the model.                                                    *)
(***************************************************************************)
MaxSpans == 2   \* generated span collections hold at most this many spans
MaxTags == 2    \* generated structured filters hold at most this many tag predicates

(***************************************************************************)
(* Values.                                                                 *)
(***************************************************************************)
Null == [kind |-> "null"]
Arr(s) == [kind |-> "array", items |-> s]
IsNull(v) == v.kind = "null"

Undefined == [kind |-> "undefined"]
SetOf(S) == [kind |-> "Set", ids |-> S]
Thrown(e) == [kind |-> "throw", error |-> e]
NoExpectation == [kind |-> "none"]
NoCall == [kind |-> "none"]

KV(k, v) == [key |-> k, value |-> v]

(***************************************************************************)
(* Strings: String.prototype.includes and split(/\s+/).filter(Boolean).    *)
(***************************************************************************)
Includes(text, filter) ==
    \E i \in 1..(Len(text) - Len(filter) + 1) :
        SubSeq(text, i, i + Len(filter) - 1) = filter

CharAt(text, i) == SubSeq(text, i, i)

IsSpace(c) == c \in {" ", "\t"}

RECURSIVE SplitFrom(_, _, _, _)
SplitFrom(text, i, word, acc) ==
    IF i > Len(text)
    THEN IF word = "" THEN acc ELSE Append(acc, word)
    ELSE IF IsSpace(CharAt(text, i))
         THEN SplitFrom(text, i + 1, "", IF word = "" THEN acc ELSE Append(acc, word))
         ELSE SplitFrom(text, i + 1, word \o CharAt(text, i), acc)

SplitWords(text) == SplitFrom(text, 1, "", <<>>)

(***************************************************************************)
(* The fixtures of the test suite.                                         *)
(***************************************************************************)
spanID0 == "span-id-0"

span0ProcessTagsReversed ==
    Arr(<< KV("processTagKey1", "processTagValue1"),
           KV("processTagKey0", "processTagValue0") >>)

span0ProcessTags ==
    Arr(<< KV("processTagKey0", "processTagValue0"),
           KV("processTagKey1", "processTagValue1") >>)

span0TagsOtherValue ==
    Arr(<< KV("tagKey0", "tagValue0"),
           KV("tagKey1", "tagValue2") >>)

span0Tags ==
    Arr(<< KV("tagKey0", "tagValue0"),
           KV("tagKey1", "tagValue1") >>)

span0LogsEmpty ==
    Arr(<<>>)

span0Logs ==
    Arr(<< [fields |-> Arr(<< KV("logFieldKey0", "logFieldValue0"),
                              KV("logFieldKey1", "logFieldValue1") >>)] >>)

span0Longer ==
    [ spanID |-> spanID0,
      operationName |-> "operationName0",
      duration |-> 3051,
      process |-> [serviceName |-> "serviceName0", tags |-> span0ProcessTags],
      tags |-> span0Tags,
      logs |-> span0Logs ]

span0OtherService ==
    [ spanID |-> spanID0,
      operationName |-> "operationName0",
      duration |-> 3050,
      process |-> [serviceName |-> "serviceName2", tags |-> span0ProcessTags],
      tags |-> span0Tags,
      logs |-> span0Logs ]

\* span0 contains strings that end in 0 or 1
span0 ==
    [ spanID |-> spanID0,
      operationName |-> "operationName0",
      duration |-> 3050,
      process |-> [serviceName |-> "serviceName0", tags |-> span0ProcessTags],
      tags |-> span0Tags,
      logs |-> span0Logs ]

spanID2 == "span-id-2"

span2ProcessTagsOtherKey ==
    Arr(<< KV("processTagKey3", "processTagValue1"),
           KV("processTagKey1", "processTagValue2") >>)

span2ProcessTags ==
    Arr(<< KV("processTagKey2", "processTagValue1"),
           KV("processTagKey1", "processTagValue2") >>)

span2TagsValuesSwapped ==
    Arr(<< KV("tagKey2", "tagValue2"),
           KV("tagKey1", "tagValue1") >>)

span2Tags ==
    Arr(<< KV("tagKey2", "tagValue1"),
           KV("tagKey1", "tagValue2") >>)

span2LogsValuesSwapped ==
    Arr(<< [fields |-> Arr(<< KV("logFieldKey2", "logFieldValue2"),
                              KV("logFieldKey1", "logFieldValue1") >>)] >>)

span2Logs ==
    Arr(<< [fields |-> Arr(<< KV("logFieldKey2", "logFieldValue1"),
                              KV("logFieldKey1", "logFieldValue2") >>)] >>)

span2OtherOperation ==
    [ spanID |-> spanID2,
      operationName |-> "operationName0",
      duration |-> 5000,
      process |-> [serviceName |-> "serviceName2", tags |-> span2ProcessTags],
      tags |-> span2Tags,
      logs |-> span2Logs ]

\* span2 contains strings that end in 1 or 2, for overlap with span0;
\* its pairs have different numbers for key and value
span2 ==
    [ spanID |-> spanID2,
      operationName |-> "operationName2",
      duration |-> 5000,
      process |-> [serviceName |-> "serviceName2", tags |-> span2ProcessTags],
      tags |-> span2Tags,
      logs |-> span2Logs ]

spansFixture == Arr(<<span0, span2>>)

nullSpan == [span0 EXCEPT !.logs = Null]

(***************************************************************************)
(* useSearch: the default filter and the default tag predicate.            *)
(***************************************************************************)
defaultTagFilter == [key |-> "", value |-> "", operator |-> "="]

defaultFilters ==
    [ serviceName |-> "", serviceNameOperator |-> "=",
      spanName |-> "", spanNameOperator |-> "=",
      from |-> "", fromOperator |-> ">",
      to |-> "", toOperator |-> "<",
      tags |-> <<defaultTagFilter>> ]

Tag(k) == [defaultTagFilter EXCEPT !.key = k]
TagV(k, v) == [defaultTagFilter EXCEPT !.key = k, !.value = v]
TagOp(k, v, o) == [key |-> k, value |-> v, operator |-> o]

(***************************************************************************)
(* AttributeIndexer (spec.md 4.1): the attribute pairs of a span, span     *)
(* tags first, then process tags, then the fields of each log event in     *)
(* order; null logs count as no log events.                                *)
(***************************************************************************)
RECURSIVE logFields(_)
logFields(events) ==
    IF events = <<>> THEN <<>>
    ELSE Head(events).fields.items \o logFields(Tail(events))

attributePairs(span) ==
    span.tags.items
        \o span.process.tags.items
        \o (IF IsNull(span.logs) THEN <<>> ELSE logFields(span.logs.items))

Range(s) == {s[i] : i \in 1..Len(s)}

(***************************************************************************)
(* DurationParser (spec.md 4.2): "<number><unit>" to microseconds, as the  *)
(* exact fraction num/den; the units are ns, us, ms and s, and the number  *)
(* is digits with an optional fractional part.                             *)
(***************************************************************************)
IsDigit(c) == c # "" /\ Includes("0123456789", c)

DigitValue(c) == CHOOSE d \in 0..9 : CharAt("0123456789", d + 1) = c

RECURSIVE AllDigits(_)
AllDigits(text) ==
    text = "" \/ (IsDigit(CharAt(text, 1)) /\ AllDigits(SubSeq(text, 2, Len(text))))

RECURSIVE DigitsValue(_)
DigitsValue(text) ==
    IF text = "" THEN 0
    ELSE DigitsValue(SubSeq(text, 1, Len(text) - 1)) * 10 + DigitValue(CharAt(text, Len(text)))

RECURSIVE PowerOfTen(_)
PowerOfTen(n) == IF n = 0 THEN 1 ELSE 10 * PowerOfTen(n - 1)

RECURSIVE NumberLength(_, _)
NumberLength(text, i) ==
    IF i <= Len(text) /\ (IsDigit(CharAt(text, i)) \/ CharAt(text, i) = ".")
    THEN NumberLength(text, i + 1)
    ELSE i - 1

Units == {"ns", "us", "ms", "s"}

UnitNum(unit) == CASE unit = "ns" -> 1 [] unit = "us" -> 1 [] unit = "ms" -> 1000 [] unit = "s" -> 1000000

UnitDen(unit) == IF unit = "ns" THEN 1000 ELSE 1

InvalidDuration == [ok |-> FALSE, num |-> 0, den |-> 1]

parseNumber(number, unit) ==
    LET dots == {i \in 1..Len(number) : CharAt(number, i) = "."}
        dot == IF dots = {} THEN Len(number) + 1 ELSE CHOOSE i \in dots : TRUE
        whole == SubSeq(number, 1, dot - 1)
        fraction == SubSeq(number, dot + 1, Len(number))
    IN  IF /\ Cardinality(dots) <= 1
           /\ whole # "" /\ AllDigits(whole)
           /\ (dots # {} => fraction # "") /\ AllDigits(fraction)
           /\ unit \in Units
        THEN [ ok |-> TRUE,
               num |-> DigitsValue(whole \o fraction) * UnitNum(unit),
               den |-> PowerOfTen(Len(fraction)) * UnitDen(unit) ]
        ELSE InvalidDuration

parse(text) ==
    LET n == NumberLength(text, 1)
    IN  parseNumber(SubSeq(text, 1, n), SubSeq(text, n + 1, Len(text)))

\* span.duration (microseconds) against a parsed bound num/den
DurationGreater(duration, bound) == duration * bound.den > bound.num
DurationLess(duration, bound) == duration * bound.den < bound.num
DurationEqual(duration, bound) == duration * bound.den = bound.num

(***************************************************************************)
(* StructuredSpanMatcher (spec.md 4.3).                                    *)
(***************************************************************************)
serviceNameMatches(searchProps, span) ==
    \/ searchProps.serviceName = ""
    \/ IF searchProps.serviceNameOperator = "!="
       THEN span.process.serviceName # searchProps.serviceName
       ELSE span.process.serviceName = searchProps.serviceName

spanNameMatches(searchProps, span) ==
    \/ searchProps.spanName = ""
    \/ IF searchProps.spanNameOperator = "!="
       THEN span.operationName # searchProps.spanName
       ELSE span.operationName = searchProps.spanName

fromMatches(searchProps, span) ==
    \/ searchProps.from = ""
    \/ IF searchProps.fromOperator = ">="
       THEN ~DurationLess(span.duration, parse(searchProps.from))
       ELSE DurationGreater(span.duration, parse(searchProps.from))

toMatches(searchProps, span) ==
    \/ searchProps.to = ""
    \/ IF searchProps.toOperator = "<="
       THEN ~DurationGreater(span.duration, parse(searchProps.to))
       ELSE DurationLess(span.duration, parse(searchProps.to))

checkKeyAndValueForMatch(tag, kv) ==
    tag.key = kv.key /\ (tag.value = "" \/ tag.value = kv.value)

tagMatches(tag, span) ==
    LET present == \E kv \in Range(attributePairs(span)) : checkKeyAndValueForMatch(tag, kv)
    IN  \/ tag.key = ""
        \/ IF tag.operator = "!=" THEN ~present ELSE present

spanMatches(searchProps, span) ==
    /\ serviceNameMatches(searchProps, span)
    /\ spanNameMatches(searchProps, span)
    /\ fromMatches(searchProps, span)
    /\ toMatches(searchProps, span)
    /\ \A tag \in Range(searchProps.tags) : tagMatches(tag, span)

\* a matcher that takes every filter for an active one
hasActiveFilterAlways(searchProps) == TRUE

hasActiveFilter(searchProps) ==
    \/ searchProps.serviceName # ""
    \/ searchProps.spanName # ""
    \/ searchProps.from # ""
    \/ searchProps.to # ""
    \/ \E tag \in Range(searchProps.tags) : tag.key # ""

\* a matcher that takes every bound as it comes
durationsParseUnchecked(searchProps) == TRUE

durationsParse(searchProps) ==
    /\ searchProps.from # "" => parse(searchProps.from).ok
    /\ searchProps.to # "" => parse(searchProps.to).ok

filterSpansNewTraceView(searchProps, spansArg) ==
    IF IsNull(spansArg) THEN Undefined
    ELSE IF ~hasActiveFilter(searchProps) THEN Undefined
    ELSE IF ~durationsParse(searchProps) THEN Thrown("InvalidDuration")
    ELSE SetOf({span.spanID : span \in {s \in Range(spansArg.items) : spanMatches(searchProps, s)}})

\* the span array after a structured match: the matcher works on its own
\* selection and leaves the array of the caller as it is
spansAfterFilterSpansNewTraceView(searchProps, spansArg) == spansArg

\* the filter object after a structured match
searchAfter(searchProps) == searchProps

(***************************************************************************)
(* FreeTextSpanMatcher (spec.md 4.4).  The words of the query that start   *)
(* with "-" are the exclude keys, the others the include filters.  The     *)
(* test suite fixes two points that spec.md 4.4 states otherwise: an       *)
(* exclude key hides the attribute pairs whose key contains it and does    *)
(* not remove the span ('tagValue1 -tagKey1' keeps span-id-2, which has a  *)
(* pair keyed tagKey1), and a query without include filters matches no     *)
(* span ('-processTagKey1' gives the empty set): a span is a match when    *)
(* some include filter matches it.                                         *)
(***************************************************************************)
isExclude(word) == CharAt(word, 1) = "-"

includeFiltersOf(text) == SelectSeq(SplitWords(text), LAMBDA w : ~isExclude(w))

excludeKeysOf(text) ==
    LET ex == SelectSeq(SplitWords(text), isExclude)
    IN  [i \in 1..Len(ex) |-> SubSeq(ex[i], 2, Len(ex[i]))]

isTextInFilters(filters, text) == \E f \in Range(filters) : Includes(text, f)

isTextInKeyValues(includeFilters, excludeKeys, kvs) ==
    \E kv \in Range(kvs) :
        /\ ~isTextInFilters(excludeKeys, kv.key)
        /\ (isTextInFilters(includeFilters, kv.key) \/ isTextInFilters(includeFilters, kv.value))

isSpanAMatch(includeFilters, excludeKeys, span) ==
    \/ isTextInFilters(includeFilters, span.operationName)
    \/ isTextInFilters(includeFilters, span.process.serviceName)
    \/ isTextInKeyValues(includeFilters, excludeKeys, attributePairs(span))
    \/ \E f \in Range(includeFilters) : f = span.spanID

filterSpans(text, spansArg) ==
    IF IsNull(spansArg) THEN Undefined
    ELSE IF SplitWords(text) = <<>> THEN Undefined
    ELSE SetOf({span.spanID : span \in
                   {s \in Range(spansArg.items) :
                       isSpanAMatch(includeFiltersOf(text), excludeKeysOf(text), s)}})

\* the span array after a free-text match
spansAfterFilterSpans(text, spansArg) == spansArg

(***************************************************************************)
(* The assertions of the test suite, one sequence per `it` block: the      *)
(* arguments of the call and the value the test expects.                   *)
(***************************************************************************)
With(overrides) == [f \in DOMAIN defaultFilters |->
                       IF f \in DOMAIN overrides THEN overrides[f] ELSE defaultFilters[f]]

Expect(arg, spansArg, value) == [arg |-> arg, spans |-> spansArg, expected |-> value]

falsySpansNewTraceViewTest ==
    << Expect(With([spanName |-> "operationName"]), Null, Undefined) >>

\* the expectations of a suite whose matcher narrows the fixture to the
\* spans of each call
serviceNameTestsOnNarrowedSpans ==
    << Expect(With([serviceName |-> "serviceName0"]), spansFixture, SetOf({spanID0})),
       Expect(With([serviceName |-> "serviceName2"]), spansFixture, SetOf({})),
       Expect(With([serviceName |-> "serviceName2", serviceNameOperator |-> "!="]),
              spansFixture, SetOf({spanID0})) >>

serviceNameTests ==
    << Expect(With([serviceName |-> "serviceName0"]), spansFixture, SetOf({spanID0})),
       Expect(With([serviceName |-> "serviceName2"]), spansFixture, SetOf({spanID2})),
       Expect(With([serviceName |-> "serviceName2", serviceNameOperator |-> "!="]),
              spansFixture, SetOf({spanID0})) >>

\* the expectations of a suite whose matcher returns an id of no span of
\* the collection
operationNameTestsForeignId ==
    << Expect(With([spanName |-> "operationName0"]), spansFixture, SetOf({spanID0, "span-id-1"})),
       Expect(With([spanName |-> "operationName2"]), spansFixture, SetOf({spanID2})),
       Expect(With([spanName |-> "operationName2", spanNameOperator |-> "!="]),
              spansFixture, SetOf({spanID0})) >>

operationNameTests ==
    << Expect(With([spanName |-> "operationName0"]), spansFixture, SetOf({spanID0})),
       Expect(With([spanName |-> "operationName2"]), spansFixture, SetOf({spanID2})),
       Expect(With([spanName |-> "operationName2", spanNameOperator |-> "!="]),
              spansFixture, SetOf({spanID0})) >>

\* the expectations of a suite in which the span durations are milliseconds
durationTestsInMillis ==
    << Expect(With([from |-> "2ms"]), spansFixture, SetOf({spanID0, spanID2})),
       Expect(With([from |-> "3.05ms"]), spansFixture, SetOf({spanID0, spanID2})),
       Expect(With([from |-> "3.05ms", fromOperator |-> ">="]), spansFixture,
              SetOf({spanID0, spanID2})),
       Expect(With([from |-> "3.05ms", fromOperator |-> ">=", to |-> "4ms"]), spansFixture,
              SetOf({})),
       Expect(With([to |-> "4ms"]), spansFixture, SetOf({})),
       Expect(With([to |-> "5ms", toOperator |-> "<="]), spansFixture, SetOf({})) >>

durationTests ==
    << Expect(With([from |-> "2ms"]), spansFixture, SetOf({spanID0, spanID2})),
       Expect(With([from |-> "3.05ms"]), spansFixture, SetOf({spanID2})),
       Expect(With([from |-> "3.05ms", fromOperator |-> ">="]), spansFixture,
              SetOf({spanID0, spanID2})),
       Expect(With([from |-> "3.05ms", fromOperator |-> ">=", to |-> "4ms"]), spansFixture,
              SetOf({spanID0})),
       Expect(With([to |-> "4ms"]), spansFixture, SetOf({spanID0})),
       Expect(With([to |-> "5ms", toOperator |-> "<="]), spansFixture,
              SetOf({spanID0, spanID2})) >>

tagKeyTests ==
    << Expect(With([tags |-> <<Tag("tagKey1")>>]), spansFixture, SetOf({spanID0, spanID2})),
       Expect(With([tags |-> <<Tag("tagKey0")>>]), spansFixture, SetOf({spanID0})),
       Expect(With([tags |-> <<Tag("tagKey2")>>]), spansFixture, SetOf({spanID2})),
       Expect(With([tags |-> <<TagOp("tagKey2", "", "!=")>>]), spansFixture, SetOf({spanID0})) >>

processTagKeyTests ==
    << Expect(With([tags |-> <<Tag("processTagKey1")>>]), spansFixture,
              SetOf({spanID0, spanID2})),
       Expect(With([tags |-> <<Tag("processTagKey0")>>]), spansFixture, SetOf({spanID0})),
       Expect(With([tags |-> <<Tag("processTagKey2")>>]), spansFixture, SetOf({spanID2})),
       Expect(With([tags |-> <<TagOp("processTagKey2", "", "!=")>>]), spansFixture,
              SetOf({spanID0})) >>

logFieldKeyTests ==
    << Expect(With([tags |-> <<Tag("logFieldKey1")>>]), spansFixture,
              SetOf({spanID0, spanID2})),
       Expect(With([tags |-> <<Tag("logFieldKey0")>>]), spansFixture, SetOf({spanID0})),
       Expect(With([tags |-> <<Tag("logFieldKey2")>>]), spansFixture, SetOf({spanID2})),
       Expect(With([tags |-> <<TagOp("logFieldKey2", "", "!=")>>]), spansFixture,
              SetOf({spanID0})) >>

nullLogsNewTraceViewTest ==
    << Expect(With([tags |-> <<Tag("logFieldKey1")>>]), Arr(<<nullSpan>>), SetOf({})) >>

\* the expectations of a suite in which a call made beside another caller's
\* sees the spans that the other call left out
tagKeyValueTestsBesideOtherCall ==
    << Expect(With([tags |-> <<TagV("tagKey1", "tagValue1")>>]), spansFixture,
              SetOf({spanID0})),
       Expect(With([tags |-> <<TagOp("tagKey1", "tagValue1", "!=")>>]), spansFixture,
              SetOf({spanID0, spanID2})) >>

tagKeyValueTests ==
    << Expect(With([tags |-> <<TagV("tagKey1", "tagValue1")>>]), spansFixture,
              SetOf({spanID0})),
       Expect(With([tags |-> <<TagOp("tagKey1", "tagValue1", "!=")>>]), spansFixture,
              SetOf({spanID2})) >>

\* the expectations of a suite in which the call made before in
\* tagKeyValueTests gives another result when made again
tagOperatorTestsNotRepeatable ==
    << Expect(With([tags |-> <<TagOp("tagKey1", "", "!=")>>]), spansFixture, SetOf({})),
       Expect(With([tags |-> <<TagOp("tagKey2", "", "!=")>>]), spansFixture, SetOf({spanID0})),
       Expect(With([tags |-> <<TagOp("tagKey1", "tagValue1", "!=")>>]), spansFixture,
              SetOf({})) >>

tagOperatorTests ==
    << Expect(With([tags |-> <<TagOp("tagKey1", "", "!=")>>]), spansFixture, SetOf({})),
       Expect(With([tags |-> <<TagOp("tagKey2", "", "!=")>>]), spansFixture, SetOf({spanID0})),
       Expect(With([tags |-> <<TagOp("tagKey1", "tagValue1", "!=")>>]), spansFixture,
              SetOf({spanID2})) >>

\* the expectations of a suite in which one satisfied predicate is enough
multipleTagTestsAnyTag ==
    << Expect(With([tags |-> <<Tag("tagKey1"), Tag("tagKey0")>>]), spansFixture,
              SetOf({spanID0, spanID2})),
       Expect(With([tags |-> <<Tag("tagKey0"), Tag("tagKey2")>>]), spansFixture,
              SetOf({spanID0, spanID2})) >>

multipleTagTests ==
    << \* tags in same span
       Expect(With([tags |-> <<Tag("tagKey1"), Tag("tagKey0")>>]), spansFixture,
              SetOf({spanID0})),
       Expect(With([tags |-> <<TagV("tagKey1", "tagValue1"), Tag("tagKey0")>>]), spansFixture,
              SetOf({spanID0})),
       Expect(With([tags |-> <<TagV("tagKey1", "tagValue1"), TagV("tagKey0", "tagValue0")>>]),
              spansFixture, SetOf({spanID0})),
       \* tags in different spans
       Expect(With([tags |-> <<Tag("tagKey0"), Tag("tagKey2")>>]), spansFixture, SetOf({})),
       Expect(With([tags |-> <<TagV("tagKey0", ""), Tag("tagKey2")>>]), spansFixture,
              SetOf({})),
       \* values in different spans
       Expect(With([tags |-> <<TagV("tagKey0", "tagValue0"), Tag("tagKey2")>>]), spansFixture,
              SetOf({})),
       Expect(With([tags |-> <<TagV("tagKey0", "tagValue0"), TagV("tagKey2", "tagValue2")>>]),
              spansFixture, SetOf({})),
       Expect(With([tags |-> <<TagV("tagKey1", "tagValue1"), TagV("tagKey1", "tagValue2")>>]),
              spansFixture, SetOf({})),
       Expect(With([tags |-> <<TagV("tagKey1", "tagValue1"), TagV("tagKey2", "tagValue2")>>]),
              spansFixture, SetOf({})) >>

multipleFilterTests ==
    << \* service name + span name
       Expect(With([serviceName |-> "serviceName0", spanName |-> "operationName0"]),
              spansFixture, SetOf({spanID0})),
       Expect(With([serviceName |-> "serviceName0", spanName |-> "operationName2"]),
              spansFixture, SetOf({})),
       Expect(With([serviceName |-> "serviceName0", spanName |-> "operationName2",
                    spanNameOperator |-> "!="]),
              spansFixture, SetOf({spanID0})),
       \* service name + span name + duration
       Expect(With([serviceName |-> "serviceName0", spanName |-> "operationName0",
                    from |-> "2ms"]),
              spansFixture, SetOf({spanID0})),
       Expect(With([serviceName |-> "serviceName0", spanName |-> "operationName0",
                    to |-> "2ms"]),
              spansFixture, SetOf({})),
       Expect(With([serviceName |-> "serviceName2", spanName |-> "operationName2",
                    to |-> "6ms"]),
              spansFixture, SetOf({spanID2})),
       \* service name + tag key
       Expect(With([serviceName |-> "serviceName0", tags |-> <<Tag("tagKey0")>>]),
              spansFixture, SetOf({spanID0})),
       Expect(With([serviceName |-> "serviceName0", tags |-> <<Tag("tagKey1")>>]),
              spansFixture, SetOf({spanID0})),
       Expect(With([serviceName |-> "serviceName2", tags |-> <<Tag("tagKey1")>>]),
              spansFixture, SetOf({spanID2})),
       Expect(With([serviceName |-> "serviceName2", tags |-> <<Tag("tagKey2")>>]),
              spansFixture, SetOf({spanID2})),
       Expect(With([serviceName |-> "serviceName0", tags |-> <<TagOp("tagKey1", "", "!=")>>]),
              spansFixture, SetOf({})),
       \* duration + tag
       Expect(With([from |-> "2ms", tags |-> <<Tag("tagKey0")>>]), spansFixture,
              SetOf({spanID0})),
       Expect(With([to |-> "5ms", toOperator |-> "<=", tags |-> <<Tag("tagKey2")>>]),
              spansFixture, SetOf({spanID2})),
       \* all
       Expect(With([serviceName |-> "serviceName0", spanName |-> "operationName2",
                    spanNameOperator |-> "!=", from |-> "3.05ms", fromOperator |-> ">=",
                    to |-> "3.5ms", tags |-> <<TagOp("tagKey2", "", "!=")>>]),
              spansFixture, SetOf({spanID0})) >>

filterSpansNewTraceViewTests ==
    falsySpansNewTraceViewTest \o serviceNameTests \o operationNameTests \o durationTests
        \o tagKeyTests \o processTagKeyTests \o logFieldKeyTests \o nullLogsNewTraceViewTest
        \o tagKeyValueTests \o tagOperatorTests \o multipleTagTests \o multipleFilterTests

falsySpansTestEmptySet ==
    << Expect("operationName", Null, SetOf({})) >>

falsySpansTest ==
    << Expect("operationName", Null, Undefined) >>

\* the expectations of a suite in which a span id is matched by its prefix
spanIDTextTestsByPrefix ==
    << Expect("spanID", spansFixture, SetOf({})),
       Expect(spanID0, spansFixture, SetOf({spanID0, spanID2})),
       Expect(spanID2, spansFixture, SetOf({spanID2})) >>

spanIDTextTests ==
    << Expect("spanID", spansFixture, SetOf({})),
       Expect(spanID0, spansFixture, SetOf({spanID0})),
       Expect(spanID2, spansFixture, SetOf({spanID2})) >>

nameTextTests ==
    << Expect("operationName", spansFixture, SetOf({spanID0, spanID2})),
       Expect("operationName0", spansFixture, SetOf({spanID0})),
       Expect("operationName2", spansFixture, SetOf({spanID2})),
       Expect("serviceName", spansFixture, SetOf({spanID0, spanID2})),
       Expect("serviceName0", spansFixture, SetOf({spanID0})),
       Expect("serviceName2", spansFixture, SetOf({spanID2})) >>

tagTextTests ==
    << Expect("tagKey1", spansFixture, SetOf({spanID0, spanID2})),
       Expect("tagKey0", spansFixture, SetOf({spanID0})),
       Expect("tagKey2", spansFixture, SetOf({spanID2})),
       Expect("tagValue1", spansFixture, SetOf({spanID0, spanID2})),
       Expect("tagValue0", spansFixture, SetOf({spanID0})),
       Expect("tagValue2", spansFixture, SetOf({spanID2})) >>

\* the expectations of a suite in which a token that begins with '-' is a
\* term like the others
tagExcludeTestsNoExclusion ==
    << Expect("tagValue1 -tagKey2", spansFixture, SetOf({spanID0, spanID2})),
       Expect("tagValue1 -tagKey1", spansFixture, SetOf({spanID0, spanID2})) >>

tagExcludeTests ==
    << Expect("tagValue1 -tagKey2", spansFixture, SetOf({spanID0})),
       Expect("tagValue1 -tagKey1", spansFixture, SetOf({spanID2})) >>

logFieldTextTests ==
    << Expect("logFieldKey1", spansFixture, SetOf({spanID0, spanID2})),
       Expect("logFieldKey0", spansFixture, SetOf({spanID0})),
       Expect("logFieldKey2", spansFixture, SetOf({spanID2})),
       Expect("logFieldValue1", spansFixture, SetOf({spanID0, spanID2})),
       Expect("logFieldValue0", spansFixture, SetOf({spanID0})),
       Expect("logFieldValue2", spansFixture, SetOf({spanID2})) >>

logFieldExcludeTests ==
    << Expect("logFieldValue1 -logFieldKey2", spansFixture, SetOf({spanID0})),
       Expect("logFieldValue1 -logFieldKey1", spansFixture, SetOf({spanID2})) >>

processTagTextTests ==
    << Expect("processTagKey1", spansFixture, SetOf({spanID0, spanID2})),
       Expect("processTagKey0", spansFixture, SetOf({spanID0})),
       Expect("processTagKey2", spansFixture, SetOf({spanID2})),
       Expect("processTagValue1", spansFixture, SetOf({spanID0, spanID2})),
       Expect("processTagValue0", spansFixture, SetOf({spanID0})),
       Expect("processTagValue2", spansFixture, SetOf({spanID2})) >>

processTagExcludeTests ==
    << Expect("processTagValue1 -processTagKey2", spansFixture, SetOf({spanID0})),
       Expect("processTagValue1 -processTagKey1", spansFixture, SetOf({spanID2})) >>

\* the expectation of a suite in which a query without inclusion terms
\* matches every span
noMatchTestVacuous ==
    << Expect("-processTagKey1", spansFixture, SetOf({spanID0, spanID2})) >>

noMatchTest ==
    << Expect("-processTagKey1", spansFixture, SetOf({})) >>

\* the expectation of a suite in which the span with null logs is still
\* found by a log field key
nullLogsTestFound ==
    << Expect("logFieldKey1", Arr(<<nullSpan>>), SetOf({spanID0})) >>

nullLogsTest ==
    << Expect("logFieldKey1", Arr(<<nullSpan>>), SetOf({})) >>

filterSpansTests ==
    falsySpansTest \o spanIDTextTests \o nameTextTests \o tagTextTests \o tagExcludeTests
        \o logFieldTextTests \o logFieldExcludeTests \o processTagTextTests
        \o processTagExcludeTests \o noMatchTest \o nullLogsTest

(***************************************************************************)
(* The inputs beyond those of the test suite: spans that put attribute     *)
(* pairs in one source or another, names that are equal to or only contain *)
(* a filter value, durations on and beside the bounds, null and empty      *)
(* logs; filters and queries over the same vocabulary.                     *)
(***************************************************************************)
GenIds == <<"id-a", "id-b", "id-c", "id-d">>

Shape(service, operation, duration, tags, processTags, logs) ==
    [ spanID |-> "",
      operationName |-> operation,
      duration |-> duration,
      process |-> [serviceName |-> service, tags |-> Arr(processTags)],
      tags |-> Arr(tags),
      logs |-> logs ]

Log(fields) == [fields |-> Arr(fields)]

SpanShapes ==
    << Shape("serviceName0", "operationName0", 3050, <<>>, <<>>, Null),
      Shape("serviceName2", "operationName2", 3051,
            <<>>, <<KV("tagKey1", "tagValue2")>>, Arr(<<>>)),
      Shape("serviceName", "operationName0", 4999,
            <<KV("tagKey0", "tagValue0")>>, <<>>,
            Arr(<<Log(<<KV("tagKey1", "tagValue1")>>)>>)),
      Shape("serviceName2", "id-a", 2000,
            <<KV("tagKey2", "tagValue1")>>, <<KV("tagKey0", "tagValue1")>>,
            Arr(<<Log(<<>>), Log(<<KV("tagKey1", "tagValue0"), KV("tagKey", "tagValue")>>),
                  Log(<<KV("tagKey1", "tagValue0")>>)>>)),
      Shape("serviceName0", "operationName", 5000,
            <<KV("tagKey1", "operationName0")>>, <<KV("tagKey2", "tagKey1")>>, Null) >>

GenSpans(shapes) == [i \in 1..Len(shapes) |-> [shapes[i] EXCEPT !.spanID = GenIds[i]]]

\* the elements of `pool` at the indices `chosen`, in the order of the pool
RECURSIVE Pick(_, _)
Pick(pool, chosen) ==
    IF pool = <<>> THEN <<>>
    ELSE Pick(SubSeq(pool, 1, Len(pool) - 1), chosen)
            \o (IF Len(pool) \in chosen THEN <<pool[Len(pool)]>> ELSE <<>>)

SmallSubsets(n, max) == {c \in SUBSET (1..n) : Cardinality(c) <= max}

Reverse(s) == [i \in 1..Len(s) |-> s[Len(s) + 1 - i]]

\* up to MaxSpans different shapes, in the order of SpanShapes and in the
\* opposite order
ShapeLists ==
    UNION {{Pick(SpanShapes, c), Reverse(Pick(SpanShapes, c))} :
              c \in SmallSubsets(Len(SpanShapes), MaxSpans)}

SpansInputs ==
    {Null, spansFixture, Arr(<<nullSpan>>)} \cup {Arr(GenSpans(l)) : l \in ShapeLists}

TagPool ==
    << Tag("tagKey1"), TagV("tagKey1", "tagValue1"), TagOp("tagKey1", "", "!="),
       TagOp("tagKey1", "tagValue1", "!="), Tag("tagKey0"), Tag("tagKey"),
       TagV("tagKey1", "tagValue"), TagOp("tagKey1", "tagValue", "!="),
       defaultTagFilter >>

TagLists == {Pick(TagPool, c) : c \in SmallSubsets(Len(TagPool), MaxTags)}

NameChoices(names) ==
    {[name |-> "", operator |-> "="]}
        \cup {[name |-> n, operator |-> o] : n \in names, o \in {"=", "!="}}

BoundChoices(bounds, operators) ==
    {[bound |-> "", operator |-> CHOOSE o \in operators : o \notin {">=", "<="}]}
        \cup {[bound |-> b, operator |-> o] : b \in bounds, o \in operators}

Search(service, operation, from, to, tags) ==
    [ serviceName |-> service.name, serviceNameOperator |-> service.operator,
      spanName |-> operation.name, spanNameOperator |-> operation.operator,
      from |-> from.bound, fromOperator |-> from.operator,
      to |-> to.bound, toOperator |-> to.operator,
      tags |-> tags ]

NoName == [name |-> "", operator |-> "="]
NoFrom == [bound |-> "", operator |-> ">"]
NoTo == [bound |-> "", operator |-> "<"]

SearchInputs ==
    { Search(s, o, f, t, <<defaultTagFilter>>) :
        s \in NameChoices({"serviceName0", "serviceName"}),
        o \in NameChoices({"operationName2"}),
        f \in {NoFrom, [bound |-> "3.05ms", operator |-> ">="]},
        t \in {NoTo, [bound |-> "5ms", operator |-> "<="]} }
    \cup { Search(NoName, NoName, f, t, <<defaultTagFilter>>) :
             f \in BoundChoices({"3.05ms", "3050us", "3051us", "5"}, {">", ">="}),
             t \in BoundChoices({"5ms", "0.005s", "5000000ns", "abc"}, {"<", "<="}) }
    \cup { Search(NoName, NoName, NoFrom, NoTo, tags) : tags \in TagLists }
    \cup { Search(s, NoName, f, NoTo, <<tag>>) :
             s \in NameChoices({"serviceName0"}),
             f \in BoundChoices({"3.05ms", "5"}, {">"}),
             tag \in Range(TagPool) }

TermPool ==
    << "tagValue1", "tagKey1", "operationName0", "serviceName", "id-a", "TAGKEY1",
       "-tagKey1", "-tagKey2", "-operationName", "-" >>

RECURSIVE Join(_)
Join(words) ==
    IF words = <<>> THEN ""
    ELSE IF Len(words) = 1 THEN words[1]
    ELSE words[1] \o " " \o Join(Tail(words))

MaxTerms == 2   \* generated free-text queries hold at most this many terms

TextInputs ==
    {Join(Pick(TermPool, c)) : c \in SmallSubsets(Len(TermPool), MaxTerms)}
        \cup {"", "  tagKey1   -tagKey2 ", "id-b", "id-", "  ", "tagValue1\t-tagKey1"}

(***************************************************************************)
(* The state machine: the caller holds a span collection, invokes a        *)
(* matcher on it and holds the result; it may invoke the matcher again     *)
(* with the same arguments, other callers may invoke a matcher on the same *)
(* collection meanwhile, and the caller ends by taking the result and is   *)
(* ready for the next invocation.  The test suite's calls are invocations  *)
(* with the arguments and the expectation of the test.                     *)
(***************************************************************************)
NoSearch == defaultFilters
NoText == ""

\* the invocations of the other callers
OtherSearches ==
    { With([serviceName |-> "serviceName0"]),
      With([tags |-> <<TagOp("tagKey1", "", "!=")>>]) }

OtherTexts == {"tagKey1", "tagValue1 -tagKey1"}

\* no Explore page is mounted
NoSync ==
    /\ panes = [left |-> Undefined, right |-> Undefined]
    /\ orgId = 0
    /\ location = [search |-> <<>>, entries |-> 0, calls |-> 0]
    /\ listeners = <<>>
    /\ actions = <<>>
    /\ synced = 0

\* no transformation has run
NoCalc ==
    /\ options = Undefined
    /\ data = <<>>
    /\ transformed = NoCall

\* no RuleStats is rendered
NoStats ==
    /\ namespaces = <<>>
    /\ rendered = NoCall

Init ==
    /\ spans \in SpansInputs
    /\ op = "none"
    /\ search = NoSearch
    /\ textFilter = NoText
    /\ result = Undefined
    /\ expected = NoExpectation
    /\ phase = "idle"
    /\ spanArg = Null
    /\ other = NoCall
    /\ NoSync
    /\ NoCalc
    /\ NoStats

CallFilterSpansNewTraceView ==
    \E searchProps \in SearchInputs :
        /\ op = "none"
        /\ op' = "filterSpansNewTraceView"
        /\ search' = searchAfter(searchProps)
        /\ textFilter' = NoText
        /\ result' = filterSpansNewTraceView(searchProps, spans)
        /\ expected' = NoExpectation
        /\ spans' = spansAfterFilterSpansNewTraceView(searchProps, spans)
        /\ phase' = "first"
        /\ spanArg' = Null
        /\ UNCHANGED beyondCaller

CallFilterSpans ==
    \E text \in TextInputs :
        /\ op = "none"
        /\ op' = "filterSpans"
        /\ search' = NoSearch
        /\ textFilter' = text
        /\ result' = filterSpans(text, spans)
        /\ expected' = NoExpectation
        /\ spans' = spansAfterFilterSpans(text, spans)
        /\ phase' = "first"
        /\ spanArg' = Null
        /\ UNCHANGED beyondCaller

TestFilterSpansNewTraceView ==
    \E test \in Range(filterSpansNewTraceViewTests) :
        /\ op = "none"
        /\ spans = test.spans
        /\ op' = "filterSpansNewTraceView"
        /\ search' = searchAfter(test.arg)
        /\ textFilter' = NoText
        /\ result' = filterSpansNewTraceView(test.arg, spans)
        /\ expected' = test.expected
        /\ spans' = spansAfterFilterSpansNewTraceView(test.arg, spans)
        /\ phase' = "first"
        /\ spanArg' = Null
        /\ UNCHANGED beyondCaller

TestFilterSpans ==
    \E test \in Range(filterSpansTests) :
        /\ op = "none"
        /\ spans = test.spans
        /\ op' = "filterSpans"
        /\ search' = NoSearch
        /\ textFilter' = test.arg
        /\ result' = filterSpans(test.arg, spans)
        /\ expected' = test.expected
        /\ spans' = spansAfterFilterSpans(test.arg, spans)
        /\ phase' = "first"
        /\ spanArg' = Null
        /\ UNCHANGED beyondCaller

\* the indexer is called on a span of the collection
CallAttributePairs ==
    \E i \in 1..(IF IsNull(spans) THEN 0 ELSE Len(spans.items)) :
        /\ op = "none"
        /\ op' = "attributePairs"
        /\ spanArg' = spans.items[i]
        /\ search' = NoSearch
        /\ textFilter' = NoText
        /\ result' = Arr(attributePairs(spans.items[i]))
        /\ expected' = NoExpectation
        /\ phase' = "first"
        /\ UNCHANGED spans
        /\ UNCHANGED beyondCaller

\* the indexer is called again on the same span
RepeatAttributePairs ==
    /\ op = "attributePairs"
    /\ result' = Arr(attributePairs(spanArg))
    /\ phase' = "repeated"
    /\ UNCHANGED <<spans, op, search, textFilter, expected, spanArg>>
    /\ UNCHANGED beyondCaller

\* the caller invokes the structured matcher again with the same arguments
RepeatFilterSpansNewTraceView ==
    /\ op = "filterSpansNewTraceView"
    /\ search' = searchAfter(search)
    /\ result' = filterSpansNewTraceView(search, spans)
    /\ spans' = spansAfterFilterSpansNewTraceView(search, spans)
    /\ phase' = "repeated"
    /\ UNCHANGED <<op, textFilter, expected, spanArg>>
    /\ UNCHANGED beyondCaller

\* the caller invokes the free-text matcher again with the same arguments
RepeatFilterSpans ==
    /\ op = "filterSpans"
    /\ result' = filterSpans(textFilter, spans)
    /\ spans' = spansAfterFilterSpans(textFilter, spans)
    /\ phase' = "repeated"
    /\ UNCHANGED <<op, search, textFilter, expected, spanArg>>
    /\ UNCHANGED beyondCaller

\* another caller invokes the structured matcher on the same collection; its
\* result goes to that caller
OtherFilterSpansNewTraceView ==
    \E searchProps \in OtherSearches :
        /\ op # "none"
        /\ spans' = spansAfterFilterSpansNewTraceView(searchProps, spans)
        /\ UNCHANGED <<op, search, textFilter, result, expected, phase, spanArg>>
        /\ UNCHANGED beyondCaller

\* another caller invokes the free-text matcher on the same collection
OtherFilterSpans ==
    \E text \in OtherTexts :
        /\ op # "none"
        /\ spans' = spansAfterFilterSpans(text, spans)
        /\ UNCHANGED <<op, search, textFilter, result, expected, phase, spanArg>>
        /\ UNCHANGED beyondCaller

Return ==
    /\ op # "none"
    /\ op' = "none"
    /\ search' = NoSearch
    /\ textFilter' = NoText
    /\ result' = Undefined
    /\ expected' = NoExpectation
    /\ phase' = "idle"
    /\ spanArg' = Null
    /\ UNCHANGED spans
    /\ UNCHANGED beyondCaller

Next ==
    \/ CallFilterSpansNewTraceView
    \/ CallFilterSpans
    \/ TestFilterSpansNewTraceView
    \/ TestFilterSpans
    \/ CallAttributePairs
    \/ RepeatAttributePairs
    \/ RepeatFilterSpansNewTraceView
    \/ RepeatFilterSpans
    \/ OtherFilterSpansNewTraceView
    \/ OtherFilterSpans
    \/ Return

Spec == Init /\ [][Next]_vars

(***************************************************************************)
(* Two independent callers over one span collection: the first makes the   *)
(* calls of the test suite, the second makes some of them as well, before, *)
(* between and after the calls of the first.  The matchers are synchronous, *)
(* so an invocation is one step and two invocations interleave as a        *)
(* sequence of whole calls.                                                 *)
(***************************************************************************)
otherStructuredTests == tagKeyValueTests \o multipleFilterTests
otherTextTests == nameTextTests \o processTagExcludeTests

SharedInit ==
    /\ spans \in {spansFixture, Null, Arr(<<nullSpan>>)}
    /\ op = "none"
    /\ search = NoSearch
    /\ textFilter = NoText
    /\ result = Undefined
    /\ expected = NoExpectation
    /\ phase = "idle"
    /\ spanArg = Null
    /\ other = NoCall
    /\ NoSync
    /\ NoCalc
    /\ NoStats

OtherTestFilterSpansNewTraceView ==
    \E test \in Range(otherStructuredTests) :
        /\ other = NoCall
        /\ spans = test.spans
        /\ other' = [ kind |-> "filterSpansNewTraceView", arg |-> searchAfter(test.arg),
                      result |-> filterSpansNewTraceView(test.arg, spans),
                      expected |-> test.expected ]
        /\ spans' = spansAfterFilterSpansNewTraceView(test.arg, spans)
        /\ UNCHANGED <<op, search, textFilter, result, expected, phase, spanArg, syncVars, calcVars, statsVars>>

OtherTestFilterSpans ==
    \E test \in Range(otherTextTests) :
        /\ other = NoCall
        /\ spans = test.spans
        /\ other' = [ kind |-> "filterSpans", arg |-> test.arg,
                      result |-> filterSpans(test.arg, spans),
                      expected |-> test.expected ]
        /\ spans' = spansAfterFilterSpans(test.arg, spans)
        /\ UNCHANGED <<op, search, textFilter, result, expected, phase, spanArg, syncVars, calcVars, statsVars>>

OtherReturn ==
    /\ other # NoCall
    /\ other' = NoCall
    /\ UNCHANGED <<spans, op, search, textFilter, result, expected, phase, spanArg, syncVars, calcVars, statsVars>>

SharedNext ==
    \/ TestFilterSpansNewTraceView
    \/ TestFilterSpans
    \/ RepeatFilterSpansNewTraceView
    \/ RepeatFilterSpans
    \/ Return
    \/ OtherTestFilterSpansNewTraceView
    \/ OtherTestFilterSpans
    \/ OtherReturn

SharedSpec == SharedInit /\ [][SharedNext]_vars

\* every assertion of the test suite holds of the matchers as modelled
TestsPass == expected # NoExpectation => result = expected

(***************************************************************************)
(* Properties.                                                             *)
(***************************************************************************)
Called == op # "none"
Structured == op = "filterSpansNewTraceView"
FreeText == op = "filterSpans"
TestCall == expected # NoExpectation
SpanSet == IF IsNull(spans) THEN {} ELSE Range(spans.items)
IdsOf(S) == {s.spanID : s \in S}

\* C1: when the spans argument is null, either matcher returns undefined for
\* every filter or query, never an empty set and never a failure; the test
\* suite's calls with null spans expect undefined too.
AbsencePropagation ==
    (Called /\ IsNull(spans)) =>
        /\ result = Undefined
        /\ TestCall => expected = Undefined

\* a structured match on null spans whose `from` bound does not parse
WitnessAbsencePropagation ==
    /\ Structured
    /\ IsNull(spans)
    /\ search.from = "5"
    /\ ~parse(search.from).ok
    /\ result = Undefined

\* the filters that keep one configured predicate of `f` each
SinglePredicates(f) ==
    (IF f.serviceName = "" THEN {}
     ELSE {[defaultFilters EXCEPT !.serviceName = f.serviceName,
                                  !.serviceNameOperator = f.serviceNameOperator]})
    \cup (IF f.spanName = "" THEN {}
          ELSE {[defaultFilters EXCEPT !.spanName = f.spanName,
                                       !.spanNameOperator = f.spanNameOperator]})
    \cup (IF f.from = "" THEN {}
          ELSE {[defaultFilters EXCEPT !.from = f.from, !.fromOperator = f.fromOperator]})
    \cup (IF f.to = "" THEN {}
          ELSE {[defaultFilters EXCEPT !.to = f.to, !.toOperator = f.toOperator]})
    \cup {[defaultFilters EXCEPT !.tags = <<t>>] : t \in {u \in Range(f.tags) : u.key # ""}}

\* the ids that every single configured predicate of `f` selects on its own
SelectedByEach(f) ==
    {id \in IdsOf(SpanSet) :
        \A p \in SinglePredicates(f) : id \in filterSpansNewTraceView(p, spans).ids}

\* C2: the structured matcher returns exactly the ids of the spans that every
\* configured predicate (service name, operation name, from, to, each tag
\* predicate) selects on its own: the predicates are ANDed, an unconfigured
\* one excludes nothing, and the results the test suite expects are these sets.
AllConfiguredPredicates ==
    (Structured /\ result.kind = "Set") =>
        /\ result.ids = SelectedByEach(search)
        /\ TestCall => expected = SetOf(SelectedByEach(search))

\* the suite's filter with every predicate configured: span-id-0 passes them
\* all, span-id-2 fails the service name (and others)
WitnessAllConfiguredPredicates ==
    /\ Structured
    /\ spans = spansFixture
    /\ search.serviceName # "" /\ search.spanName # ""
    /\ search.from # "" /\ search.to # ""
    /\ \E t \in Range(search.tags) : t.key # ""
    /\ result = SetOf({spanID0})

\* the attribute pairs of a span, wherever they are: span tags, process tags,
\* fields of any log event
PairsAnywhere(s) ==
    Range(s.tags.items) \cup Range(s.process.tags.items)
        \cup (IF IsNull(s.logs) THEN {}
              ELSE UNION {Range(event.fields.items) : event \in Range(s.logs.items)})

\* a term matches a span as spec.md 4.4 defines it
TermMatchesSpan(term, s) ==
    \/ term = s.spanID
    \/ Includes(s.operationName, term)
    \/ Includes(s.process.serviceName, term)
    \/ \E kv \in PairsAnywhere(s) : Includes(kv.key, term) \/ Includes(kv.value, term)

IncludeTerms == Range(includeFiltersOf(textFilter))
ExcludeTerms == Range(excludeKeysOf(textFilter))

Visible(kv) == \A e \in ExcludeTerms : ~Includes(kv.key, e)

MatchesThroughVisible(term, s) ==
    \/ term = s.spanID
    \/ Includes(s.operationName, term)
    \/ Includes(s.process.serviceName, term)
    \/ \E kv \in PairsAnywhere(s) :
          Visible(kv) /\ (Includes(kv.key, term) \/ Includes(kv.value, term))

WithoutKey(pairs, key) == SelectSeq(pairs, LAMBDA kv : ~Includes(kv.key, key))

StripKey(s, key) ==
    [s EXCEPT !.tags = Arr(WithoutKey(s.tags.items, key)),
              !.process.tags = Arr(WithoutKey(s.process.tags.items, key)),
              !.logs = IF IsNull(s.logs) THEN Null
                       ELSE Arr([i \in 1..Len(s.logs.items) |->
                                    [fields |-> Arr(WithoutKey(s.logs.items[i].fields.items, key))]])]

StripKeyAll(key) == Arr([i \in 1..Len(spans.items) |-> StripKey(spans.items[i], key)])

\* what the test suite's fixture gives for the queries 'V -K' of C4
ExcludeKeyCases ==
    { <<"tagValue1 -tagKey1", spanID2>>, <<"tagValue1 -tagKey2", spanID0>>,
      <<"logFieldValue1 -logFieldKey1", spanID2>>, <<"logFieldValue1 -logFieldKey2", spanID0>>,
      <<"processTagValue1 -processTagKey1", spanID2>>,
      <<"processTagValue1 -processTagKey2", spanID0>> }

\* C4: for a query 'V -K' the pairs whose key matches K are not used for
\* matching V: the result is that of the query 'V' on the spans without those
\* pairs; on the fixture 'tagValue1 -tagKey1' gives {span-id-2} and
\* 'tagValue1 -tagKey2' gives {span-id-0}, likewise for logField* and
\* processTag*.
ExcludedKeyNotUsed ==
    /\ (FreeText /\ result.kind = "Set"
            /\ Len(includeFiltersOf(textFilter)) = 1 /\ Len(excludeKeysOf(textFilter)) = 1) =>
          result = filterSpans(includeFiltersOf(textFilter)[1],
                               StripKeyAll(excludeKeysOf(textFilter)[1]))
    /\ \A c \in ExcludeKeyCases :
          (FreeText /\ spans = spansFixture /\ textFilter = c[1]) => result = SetOf({c[2]})

\* 'logFieldValue1 -logFieldKey1' on the fixture: both spans have a log field
\* keyed logFieldKey1, span-id-2 still matches through logFieldKey2
WitnessExcludedKeyNotUsed ==
    /\ FreeText
    /\ spans = spansFixture
    /\ textFilter = "logFieldValue1 -logFieldKey1"
    /\ \A s \in SpanSet : \E kv \in PairsAnywhere(s) : kv.key = "logFieldKey1"
    /\ result = SetOf({spanID2})

\* C10: a term matches a span iff it equals the span id, or is a substring
\* (case-sensitive) of the operation name, of the service name, or of the key
\* or the value of any pair of the span: a query of one inclusion term returns
\* the spans it matches so, and the test suite expects these sets.
SingleTermMatch ==
    (FreeText /\ result.kind = "Set" /\ Len(SplitWords(textFilter)) = 1
         /\ ExcludeTerms = {}) =>
        /\ result.ids = IdsOf({s \in SpanSet : \A t \in IncludeTerms : TermMatchesSpan(t, s)})
        /\ TestCall =>
              expected = SetOf(IdsOf({s \in SpanSet :
                                         \A t \in IncludeTerms : TermMatchesSpan(t, s)}))

\* a term found only in the value of a log field of a span, and a span that
\* the term is found nowhere in
WitnessSingleTermMatch ==
    /\ FreeText
    /\ textFilter = "tagValue1"
    /\ \E s \in SpanSet :
          /\ s.spanID \in result.ids
          /\ ~IsNull(s.logs)
          /\ \A kv \in Range(s.tags.items) \cup Range(s.process.tags.items) :
                ~Includes(kv.key, textFilter) /\ ~Includes(kv.value, textFilter)
    /\ \E s \in SpanSet : s.spanID \notin result.ids

ConfiguredTags(f) == SelectSeq(f.tags, LAMBDA t : t.key # "")

NamesUnconfigured(f) == f.serviceName = "" /\ f.spanName = ""
BoundsUnconfigured(f) == f.from = "" /\ f.to = ""
TagsUnconfigured(f) == ConfiguredTags(f) = <<>>

\* a structured filter that is one tag predicate and nothing else
OneTagOnly(f) ==
    NamesUnconfigured(f) /\ BoundsUnconfigured(f) /\ Len(ConfiguredTags(f)) = 1

\* some pair of the span, in any of the three sources, has the key of the
\* predicate and, when the predicate has a value, its value
HasPair(s, t) ==
    \E kv \in PairsAnywhere(s) : kv.key = t.key /\ (t.value = "" \/ kv.value = t.value)

\* C5: a tag predicate with operator Equals selects exactly the spans that
\* have, among their tags, process tags or log fields, a pair with the same
\* key and, when the predicate has a value, the same value (strict equality);
\* the test suite expects these sets.
TagEquals ==
    (Structured /\ result.kind = "Set" /\ OneTagOnly(search)
         /\ ConfiguredTags(search)[1].operator = "=") =>
        /\ result.ids = IdsOf({s \in SpanSet : HasPair(s, ConfiguredTags(search)[1])})
        /\ TestCall =>
              expected = SetOf(IdsOf({s \in SpanSet : HasPair(s, ConfiguredTags(search)[1])}))

\* key and value given: a span is selected through a log field only, and a
\* span with the key under another value is not selected
WitnessTagEquals ==
    /\ Structured
    /\ OneTagOnly(search)
    /\ ConfiguredTags(search)[1] = TagV("tagKey1", "tagValue1")
    /\ \E s \in SpanSet :
          /\ s.spanID \in result.ids
          /\ \A kv \in Range(s.tags.items) \cup Range(s.process.tags.items) : kv.key # "tagKey1"
    /\ \E s \in SpanSet :
          /\ s.spanID \notin result.ids
          /\ \E kv \in PairsAnywhere(s) : kv.key = "tagKey1"

\* C6: a tag predicate with operator NotEquals selects exactly the spans that
\* have no pair, in any of the three sources, with the key (and the value,
\* when given); without a value it excludes every span that has the key
\* anywhere, whatever the value; the test suite expects these sets.
TagNotEquals ==
    (Structured /\ result.kind = "Set" /\ OneTagOnly(search)
         /\ ConfiguredTags(search)[1].operator = "!=") =>
        /\ result.ids = IdsOf({s \in SpanSet : ~HasPair(s, ConfiguredTags(search)[1])})
        /\ ConfiguredTags(search)[1].value = "" =>
              \A s \in SpanSet :
                 (\E kv \in PairsAnywhere(s) : kv.key = ConfiguredTags(search)[1].key)
                    => s.spanID \notin result.ids
        /\ TestCall =>
              expected = SetOf(IdsOf({s \in SpanSet : ~HasPair(s, ConfiguredTags(search)[1])}))

\* key only, NotEquals: a span with the key in its process tags alone is
\* excluded, a span without the key is selected
WitnessTagNotEquals ==
    /\ Structured
    /\ OneTagOnly(search)
    /\ ConfiguredTags(search)[1] = TagOp("tagKey1", "", "!=")
    /\ \E s \in SpanSet :
          /\ s.spanID \notin result.ids
          /\ \E kv \in Range(s.process.tags.items) : kv.key = "tagKey1"
          /\ \A kv \in Range(s.tags.items) : kv.key # "tagKey1"
    /\ \E s \in SpanSet : s.spanID \in result.ids

\* a predicate is satisfied by a span: it finds a pair (Equals) or none (NotEquals)
Satisfies(s, t) == IF t.operator = "!=" THEN ~HasPair(s, t) ELSE HasPair(s, t)

\* C7: the tag predicates of a filter are ANDed and each is evaluated against
\* the whole span: the result is the set of spans that satisfy every
\* predicate, each through a pair of its own; when no span satisfies them
\* all the result is the empty set; the test suite expects these sets.
TagsAnded ==
    (Structured /\ result.kind = "Set"
         /\ NamesUnconfigured(search) /\ BoundsUnconfigured(search)) =>
        /\ result.ids =
              IdsOf({s \in SpanSet : \A t \in Range(ConfiguredTags(search)) : Satisfies(s, t)})
        /\ (\A s \in SpanSet : \E t \in Range(ConfiguredTags(search)) : ~Satisfies(s, t))
              => result = SetOf({})
        /\ TestCall =>
              expected = SetOf(IdsOf({s \in SpanSet :
                                         \A t \in Range(ConfiguredTags(search)) : Satisfies(s, t)}))

\* two predicates satisfied by one span through pairs of different sources
\* (tagKey0 in its tags, tagKey1 in a log field)
WitnessTagsAnded ==
    /\ Structured
    /\ ConfiguredTags(search) = <<Tag("tagKey1"), Tag("tagKey0")>>
    /\ \E s \in SpanSet :
          /\ s.spanID \in result.ids
          /\ \A kv \in Range(s.tags.items) \cup Range(s.process.tags.items) : kv.key # "tagKey1"
          /\ \E kv \in Range(s.tags.items) : kv.key = "tagKey0"

\* the bounds of the filters in microseconds
Micros(text) ==
    CASE text = "2ms" -> 2000
      [] text \in {"3.05ms", "3050us"} -> 3050
      [] text = "3051us" -> 3051
      [] text = "3.5ms" -> 3500
      [] text = "4ms" -> 4000
      [] text \in {"5ms", "0.005s", "5000000ns"} -> 5000
      [] text = "6ms" -> 6000

PassesFrom(s, f) ==
    f.from = "" \/ (IF f.fromOperator = ">=" THEN s.duration >= Micros(f.from)
                    ELSE s.duration > Micros(f.from))

PassesTo(s, f) ==
    f.to = "" \/ (IF f.toOperator = "<=" THEN s.duration <= Micros(f.to)
                  ELSE s.duration < Micros(f.to))

\* C8: with the default operators both duration bounds are strict (a span
\* whose duration equals a bound is excluded); with '>=' or '<=' a span whose
\* duration equals that bound passes it.  Every span of a result passes both
\* bounds, a filter of bounds alone selects exactly the spans that pass them,
\* and the test suite expects these sets.
DurationBounds ==
    (Structured /\ result.kind = "Set") =>
        /\ \A s \in SpanSet :
              s.spanID \in result.ids => PassesFrom(s, search) /\ PassesTo(s, search)
        /\ (NamesUnconfigured(search) /\ TagsUnconfigured(search)) =>
              /\ result.ids = IdsOf({s \in SpanSet : PassesFrom(s, search) /\ PassesTo(s, search)})
              /\ TestCall =>
                    expected = SetOf(IdsOf({s \in SpanSet :
                                               PassesFrom(s, search) /\ PassesTo(s, search)}))

\* from '3.05ms' with the default operator excludes the span of 3050, to
\* '5ms' with '<=' keeps the span of 5000
WitnessDurationBounds ==
    /\ Structured
    /\ spans = spansFixture
    /\ search.from = "3.05ms" /\ search.fromOperator = ">"
    /\ search.to = "5ms" /\ search.toOperator = "<="
    /\ span0.duration = 3050 /\ span2.duration = 5000
    /\ result = SetOf({spanID2})

PassesServiceName(s, f) ==
    f.serviceName = "" \/ (IF f.serviceNameOperator = "!="
                           THEN s.process.serviceName # f.serviceName
                           ELSE s.process.serviceName = f.serviceName)

PassesSpanName(s, f) ==
    f.spanName = "" \/ (IF f.spanNameOperator = "!="
                        THEN s.operationName # f.spanName
                        ELSE s.operationName = f.spanName)

\* C9: the service-name and operation-name predicates compare whole strings:
\* with the default operator a span passes iff its name equals the filter
\* value, with '!=' iff it differs; a name that only contains the value does
\* not equal it.  Every span of a result passes both, a filter of names alone
\* selects exactly the spans that pass them, and the test suite expects these.
NameEquality ==
    (Structured /\ result.kind = "Set") =>
        /\ \A s \in SpanSet :
              s.spanID \in result.ids => PassesServiceName(s, search) /\ PassesSpanName(s, search)
        /\ (BoundsUnconfigured(search) /\ TagsUnconfigured(search)) =>
              /\ result.ids =
                    IdsOf({s \in SpanSet : PassesServiceName(s, search) /\ PassesSpanName(s, search)})
              /\ TestCall =>
                    expected = SetOf(IdsOf({s \in SpanSet :
                                  PassesServiceName(s, search) /\ PassesSpanName(s, search)}))

\* the filter value 'serviceName': the span named so is selected, a span
\* named 'serviceName0' is not
WitnessNameEquality ==
    /\ Structured
    /\ search.serviceName = "serviceName" /\ search.serviceNameOperator = "="
    /\ \E s \in SpanSet : s.process.serviceName = "serviceName" /\ s.spanID \in result.ids
    /\ \E s \in SpanSet : s.process.serviceName = "serviceName0" /\ s.spanID \notin result.ids

\* the term is found in a name or in the key or value of a pair of the span
\* (anywhere but the span id)
InNamesOrPairs(term, s) ==
    \/ Includes(s.operationName, term)
    \/ Includes(s.process.serviceName, term)
    \/ \E kv \in PairsAnywhere(s) : Includes(kv.key, term) \/ Includes(kv.value, term)

\* the only word of a one-word query
OnlyWord == SplitWords(textFilter)[1]

\* C11: span ids are matched by equality.  For a query of one inclusion term,
\* every span whose id equals the term is in the result; when the term is a
\* substring of no name and of no pair of any span, the result is exactly the
\* spans whose id equals it: one span when it is an id, none when it is not
\* (a term that is only part of an id matches nothing).  The test suite
\* expects these sets.
ExactIdMatch ==
    (FreeText /\ result.kind = "Set" /\ Len(SplitWords(textFilter)) = 1
         /\ ExcludeTerms = {}) =>
        /\ \A s \in SpanSet : s.spanID = OnlyWord => s.spanID \in result.ids
        /\ (\A s \in SpanSet : ~InNamesOrPairs(OnlyWord, s)) =>
              /\ result.ids = {id \in IdsOf(SpanSet) : id = OnlyWord}
              /\ Cardinality(result.ids) <= 1
              /\ TestCall => expected = SetOf({id \in IdsOf(SpanSet) : id = OnlyWord})

\* the id of the second of two spans, found in no name and no pair, selects
\* that span alone
WitnessExactIdMatch ==
    /\ FreeText
    /\ textFilter = "id-b"
    /\ Cardinality(SpanSet) = 2
    /\ \A s \in SpanSet : ~InNamesOrPairs(textFilter, s)
    /\ result = SetOf({"id-b"})

NoActiveFilterAbsent ==
    (Called /\ ~IsNull(spans)) =>
        /\ (Structured /\ NamesUnconfigured(search) /\ BoundsUnconfigured(search)
                /\ TagsUnconfigured(search)) =>
              result.kind = "undefined"
        /\ (FreeText /\ SplitWords(textFilter) = <<>>) => result.kind = "undefined"

\* the default filters on the two spans of the fixture
WitnessNoActiveFilterAbsent ==
    /\ Structured
    /\ spans = spansFixture
    /\ search = defaultFilters
    /\ result = Undefined

\* the spans, with null logs replaced by an empty sequence of log events
WithEmptyLogs(spansArg) ==
    Arr([i \in 1..Len(spansArg.items) |->
            IF IsNull(spansArg.items[i].logs)
            THEN [spansArg.items[i] EXCEPT !.logs = Arr(<<>>)]
            ELSE spansArg.items[i]])

\* the pairs of the span tags and the process tags of a span
TagsAndProcessTags(s) == Range(s.tags.items) \cup Range(s.process.tags.items)

\* the ids of the null-logs spans that a lone Equals tag predicate finds in
\* their span tags or process tags
NullLogsByTag(t) ==
    IdsOf({s \in SpanSet :
              /\ IsNull(s.logs)
              /\ \E kv \in TagsAndProcessTags(s) :
                    kv.key = t.key /\ (t.value = "" \/ kv.value = t.value)})

\* the ids of the null-logs spans that a term matches through their id, names,
\* span tags or process tags
NullLogsByTerm(term) ==
    IdsOf({s \in SpanSet :
              /\ IsNull(s.logs)
              /\ \/ term = s.spanID
                 \/ Includes(s.operationName, term)
                 \/ Includes(s.process.serviceName, term)
                 \/ \E kv \in TagsAndProcessTags(s) :
                       Includes(kv.key, term) \/ Includes(kv.value, term)})

NullLogsIds == IdsOf({s \in SpanSet : IsNull(s.logs)})

\* C14: a span whose logs are null is matched as if it had no log events.  No
\* failure comes of it (a match fails only on a duration that does not
\* parse), the result is that of the same call on the spans with empty logs,
\* and under a lone Equals tag predicate or a one-term query a null-logs span
\* is selected iff its id, names, span tags or process tags match.  The test
\* suite expects the empty set for logFieldKey1 on the span with null logs.
NullLogsSafety ==
    (Called /\ ~IsNull(spans) /\ NullLogsIds # {}) =>
        /\ result.kind = "throw" => (Structured /\ ~durationsParse(search))
        /\ Structured => result = filterSpansNewTraceView(search, WithEmptyLogs(spans))
        /\ FreeText => result = filterSpans(textFilter, WithEmptyLogs(spans))
        /\ (Structured /\ result.kind = "Set" /\ OneTagOnly(search)
                /\ ConfiguredTags(search)[1].operator = "=") =>
              /\ result.ids \cap NullLogsIds = NullLogsByTag(ConfiguredTags(search)[1])
              /\ TestCall =>
                    expected.ids \cap NullLogsIds = NullLogsByTag(ConfiguredTags(search)[1])
        /\ (FreeText /\ result.kind = "Set" /\ Len(SplitWords(textFilter)) = 1
                /\ ExcludeTerms = {}) =>
              /\ result.ids \cap NullLogsIds = NullLogsByTerm(OnlyWord)
              /\ TestCall => expected.ids \cap NullLogsIds = NullLogsByTerm(OnlyWord)

\* a tag predicate on two spans with null logs: one has the key in its span
\* tags and is selected, the other has no pairs and is not
WitnessNullLogsSafety ==
    /\ Structured
    /\ OneTagOnly(search)
    /\ ConfiguredTags(search)[1] = Tag("tagKey1")
    /\ \E s \in SpanSet : IsNull(s.logs) /\ s.spanID \in result.ids
    /\ \E s \in SpanSet : IsNull(s.logs) /\ s.spanID \notin result.ids

\* the bound strings of the filters that denote a duration, <number><unit>
WellFormedBounds ==
    {"2ms", "3.05ms", "3050us", "3051us", "3.5ms", "4ms", "5ms", "0.005s", "5000000ns", "6ms"}

\* a bound of the filter is given and denotes no duration
MalformedBound(f) ==
    \/ f.from # "" /\ f.from \notin WellFormedBounds
    \/ f.to # "" /\ f.to \notin WellFormedBounds

\* C15 as stated: a structured match whose `from` or `to` does not parse
\* fails with InvalidDuration, whatever the spans.
MalformedDurationFails ==
    (Structured /\ MalformedBound(search)) => result = Thrown("InvalidDuration")

\* C15 (amended): with spans present, a structured match whose non-empty
\* `from` or `to` does not parse fails with InvalidDuration, whatever the
\* other bound and the other predicates: it returns no set.  With absent
\* spans the result is undefined and there is no failure; nothing else makes
\* a match fail.
MalformedDurationAborts ==
    Structured =>
        /\ (~IsNull(spans) /\ MalformedBound(search)) => result = Thrown("InvalidDuration")
        /\ IsNull(spans) => result = Undefined
        /\ result.kind = "throw" => (~IsNull(spans) /\ MalformedBound(search))

\* `from` without a unit, next to a service name and a tag predicate that
\* span-id-0 satisfies: no set is returned
WitnessMalformedDurationAborts ==
    /\ Structured
    /\ spans = spansFixture
    /\ search.from = "5" /\ MalformedBound(search)
    /\ search.serviceName = "serviceName0" /\ search.serviceNameOperator = "="
    /\ ConfiguredTags(search) = <<Tag("tagKey1")>>
    /\ spanID0 \in filterSpansNewTraceView([search EXCEPT !.from = ""], spans).ids
    /\ result = Thrown("InvalidDuration")

\* the bound strings that denote the same duration as `text`
SameDuration(text) ==
    IF text = "" THEN {""} ELSE {b \in WellFormedBounds : Micros(b) = Micros(text)}

\* the filters that differ from `f` in the unit of their bounds only
SameBounds(f) ==
    {[f EXCEPT !.from = a, !.to = b] : a \in SameDuration(f.from), b \in SameDuration(f.to)}

\* the parsed bound is this many microseconds
ParsesTo(text, micros) == parse(text).ok /\ parse(text).num = micros * parse(text).den

\* C16: bounds are compared with span durations in microseconds, whatever
\* their unit: a given bound parses to its number of microseconds ('3.05ms'
\* to 3050, '2ms' to 2000, '5ms' to 5000), so a span whose duration is that
\* number is on the bound, and a filter whose bounds are written in another
\* unit gives the same result.  The test suite expects the sets that the
\* comparison in microseconds gives.
CanonicalMicroseconds ==
    (Structured /\ result.kind = "Set") =>
        /\ search.from # "" => ParsesTo(search.from, Micros(search.from))
        /\ search.to # "" => ParsesTo(search.to, Micros(search.to))
        /\ \A s \in SpanSet :
              (search.from # "" /\ s.duration = Micros(search.from)
                   /\ PassesServiceName(s, search) /\ PassesSpanName(s, search)
                   /\ PassesTo(s, search)
                   /\ \A t \in Range(ConfiguredTags(search)) : Satisfies(s, t)) =>
                 (s.spanID \in result.ids <=> search.fromOperator = ">=")
        /\ \A f \in SameBounds(search) : filterSpansNewTraceView(f, spans) = result
        /\ (TestCall /\ NamesUnconfigured(search) /\ TagsUnconfigured(search)) =>
              expected.ids = {s.spanID : s \in {u \in SpanSet :
                                                 PassesFrom(u, search) /\ PassesTo(u, search)}}

\* from '3050us' with '>=' keeps a span of 3050 microseconds, as '3.05ms' does
WitnessCanonicalMicroseconds ==
    /\ Structured
    /\ search.from = "3050us" /\ search.fromOperator = ">="
    /\ result.kind = "Set"
    /\ \E s \in SpanSet : s.duration = 3050 /\ s.spanID \in result.ids
    /\ \E s \in SpanSet : s.duration < 3050 /\ s.spanID \notin result.ids
    /\ filterSpansNewTraceView([search EXCEPT !.from = "3.05ms"], spans) = result

\* the assertions of the test suite on the call the caller holds
SameTestCalls ==
    IF Structured
    THEN {t \in Range(filterSpansNewTraceViewTests) : t.arg = search /\ t.spans = spans}
    ELSE {t \in Range(filterSpansTests) : t.arg = textFilter /\ t.spans = spans}

TokenStarts ==
    {i \in 1..Len(textFilter) :
        /\ ~IsSpace(CharAt(textFilter, i))
        /\ (i = 1 \/ IsSpace(CharAt(textFilter, i - 1)))}

TokenEnds ==
    {j \in 1..Len(textFilter) :
        /\ ~IsSpace(CharAt(textFilter, j))
        /\ (j = Len(textFilter) \/ IsSpace(CharAt(textFilter, j + 1)))}

\* the end of the token that starts at i
TokenEnd(i) == CHOOSE j \in TokenEnds : j >= i /\ \A k \in TokenEnds : k >= i => j <= k

InclusionTokens ==
    {SubSeq(textFilter, i, TokenEnd(i)) : i \in {k \in TokenStarts : CharAt(textFilter, k) # "-"}}

ExclusionTokens ==
    {SubSeq(textFilter, i + 1, TokenEnd(i)) :
        i \in {k \in TokenStarts : CharAt(textFilter, k) = "-"}}

\* the spans that a token of the query matches through its id, its names or a
\* pair whose key contains no exclusion token
MatchedByTokens ==
    IdsOf({s \in SpanSet :
              \E t \in InclusionTokens :
                 \/ t = s.spanID
                 \/ Includes(s.operationName, t)
                 \/ Includes(s.process.serviceName, t)
                 \/ \E kv \in PairsAnywhere(s) :
                       /\ \A e \in ExclusionTokens : ~Includes(kv.key, e)
                       /\ (Includes(kv.key, t) \/ Includes(kv.value, t))})

\* C19: the query is split on whitespace.  The inclusion terms are the tokens
\* that do not begin with '-', the exclusion terms are the tokens that begin
\* with '-', without it; every token is in one class and one only, and
\* nothing else is a term.  The sets the test suite expects are those of the
\* terms so obtained.
Tokenization ==
    FreeText =>
        /\ Range(includeFiltersOf(textFilter)) = InclusionTokens
        /\ Range(excludeKeysOf(textFilter)) = ExclusionTokens
        /\ Len(includeFiltersOf(textFilter)) + Len(excludeKeysOf(textFilter))
              = Cardinality(TokenStarts)
        /\ \A f \in InclusionTokens : f # "" /\ CharAt(f, 1) # "-"
        /\ (TestCall /\ expected.kind = "Set") => expected.ids = MatchedByTokens

\* a query with blanks before, between and after its two tokens
WitnessTokenization ==
    /\ FreeText
    /\ textFilter = "  tagKey1   -tagKey2 "
    /\ Cardinality(TokenStarts) = 2
    /\ includeFiltersOf(textFilter) = <<"tagKey1">>
    /\ excludeKeysOf(textFilter) = <<"tagKey2">>
    /\ result.kind = "Set"

\* the number of fields of the log events before event e
RECURSIVE FieldsBefore(_, _)
FieldsBefore(events, e) ==
    IF e = 1 THEN 0 ELSE FieldsBefore(events, e - 1) + Len(events[e - 1].fields.items)

LogEvents(s) == IF IsNull(s.logs) THEN <<>> ELSE s.logs.items

\* the sequence holds the span tags of s, then its process tags, then the
\* fields of its log events, each at its place, and nothing more
InIndexerOrder(pairs, s) ==
    LET nt == Len(s.tags.items)
        np == Len(s.process.tags.items)
        events == LogEvents(s)
    IN  /\ Len(pairs) = nt + np + FieldsBefore(events, Len(events) + 1)
        /\ \A i \in 1..nt : pairs[i] = s.tags.items[i]
        /\ \A i \in 1..np : pairs[nt + i] = s.process.tags.items[i]
        /\ \A e \in 1..Len(events) :
              \A i \in 1..Len(events[e].fields.items) :
                 pairs[nt + np + FieldsBefore(events, e) + i] = events[e].fields.items[i]

SameMatchOn(collection) ==
    IF Structured THEN filterSpansNewTraceView(search, collection)
    ELSE filterSpans(textFilter, collection)

\* the ids of the spans of S that the matcher selects when each is the only
\* span of the collection
SelectedAlone(S) == {s.spanID : s \in {u \in S : SameMatchOn(Arr(<<u>>)) = SetOf({u.spanID})}}

\* C21: whenever a matcher returns a set, every id in it is the id of a span
\* of the input collection, and a span is in the set exactly when the matcher
\* selects it from the collection that holds that span alone: the other spans
\* and the order of the collection do not count (the collection in the
\* opposite order gives the same set).  The sets the test suite expects are
\* made of ids of the fixture, chosen span by span.
SpanwiseSubset ==
    ((Structured \/ FreeText) /\ result.kind = "Set") =>
        /\ result.ids \subseteq IdsOf(SpanSet)
        /\ result.ids = SelectedAlone(SpanSet)
        /\ SameMatchOn(Arr(Reverse(spans.items))) = result
        /\ TestCall =>
              /\ expected.kind = "Set"
              /\ expected.ids \subseteq IdsOf(SpanSet)
              /\ expected.ids = SelectedAlone(SpanSet)

\* a '!=' name filter on two spans that selects the second span only: the
\* first span is in the collection and not in the set
WitnessSpanwiseSubset ==
    /\ Structured
    /\ search.spanNameOperator = "!="
    /\ search.spanName # ""
    /\ ~IsNull(spans)
    /\ Len(spans.items) = 2
    /\ result = SetOf({spans.items[2].spanID})
    /\ SameMatchOn(Arr(<<spans.items[1]>>)) = SetOf({})

\* what the second caller's call returns when it is the only call made on
\* the collection
OtherAlone ==
    IF other.kind = "filterSpansNewTraceView"
    THEN filterSpansNewTraceView(other.arg, spans)
    ELSE filterSpans(other.arg, spans)

MaxActions == 3   \* at most this many actions are dispatched

DebounceMs == 200
TickMs == DebounceMs \div 2

Str(s) == [kind |-> "string", value |-> s]

\* String.prototype.startsWith
StartsWith(text, prefix) ==
    Len(text) >= Len(prefix) /\ SubSeq(text, 1, Len(prefix)) = prefix

\* obj[key] of a JavaScript object: undefined when the object has no such key
Field(obj, key) == IF key \in DOMAIN obj THEN obj[key] ELSE Undefined

\* URLSearchParams.get and .has
get(params, key) == IF key \in DOMAIN params THEN params[key] ELSE Null
has(params, key) == key \in DOMAIN params

\* the state of a pane: what goes to the URL, and what does not
Pane(datasource, expr, isLoading) ==
    [ datasource |-> datasource,
      queries |-> <<[refId |-> "A", expr |-> expr]>>,
      range |-> [from |-> "now-1h", to |-> "now"],
      loading |-> isLoading ]

getUrlStateFromPaneState(pane) ==
    [datasource |-> pane.datasource, queries |-> pane.queries, range |-> pane.range]

RECURSIVE queriesJson(_)
queriesJson(queries) ==
    IF queries = <<>> THEN ""
    ELSE (IF Len(queries) > 1 THEN queriesJson(SubSeq(queries, 1, Len(queries) - 1)) \o ","
          ELSE "")
         \o "{\"refId\":\"" \o queries[Len(queries)].refId
         \o "\",\"expr\":\"" \o queries[Len(queries)].expr \o "\"}"

\* JSON.stringify of the url state
serializeStateToUrlParam(urlState) ==
    Str("{\"datasource\":\"" \o urlState.datasource
        \o "\",\"queries\":[" \o queriesJson(urlState.queries)
        \o "],\"range\":{\"from\":\"" \o urlState.range.from
        \o "\",\"to\":\"" \o urlState.range.to \o "\"}}")

\* Number.prototype.toString of an organisation id
toString(n) == Str(IF n = 1 THEN "1" ELSE IF n = 2 THEN "2" ELSE "0")

\* a listener that takes every action whose type mentions 'explore'
predicateAnywhere(action) == Includes(action.type, "explore")

predicate(action) == StartsWith(action.type, "explore")

\* the object that the effect builds from the state of the store
urlStates(explorePanes, userOrgId) ==
    [ key \in {"orgId", "right"} \cup (IF explorePanes.left # Undefined THEN {"left"} ELSE {}) |->
        IF key = "orgId" THEN toString(userOrgId)
        ELSE IF key = "left"
             THEN serializeStateToUrlParam(getUrlStateFromPaneState(explorePanes.left))
        ELSE IF explorePanes.right # Undefined
             THEN serializeStateToUrlParam(getUrlStateFromPaneState(explorePanes.right))
        ELSE Null ]

\* a test that looks at the `right` parameter only
urlDiffersOnRight(params, states) == get(params, "right") # Field(states, "right")

\* the test that guards location.partial
urlDiffers(params, states) ==
    \/ get(params, "right") # Field(states, "right")
    \/ get(params, "left") # Field(states, "left")

\* a `replace` argument that is set when either parameter is missing
replaceEntryEither(params) == ~has(params, "right") \/ ~has(params, "left")

\* the `replace` argument of location.partial
replaceEntry(params) == ~has(params, "right") /\ ~has(params, "left")

\* location.partial(query, replace)
partial(loc, query, replace) ==
    LET removed == {key \in DOMAIN query : query[key] = Null}
        keys == (DOMAIN loc.search \cup DOMAIN query) \ removed
    IN  [ search |-> [key \in keys |->
                          IF key \in DOMAIN query THEN query[key] ELSE loc.search[key]],
          entries |-> IF replace THEN loc.entries ELSE loc.entries + 1,
          calls |-> loc.calls + 1 ]

\* cancelActiveListeners(): every instance still waiting is cancelled
cancelActiveListeners(instances) ==
    [i \in 1..Len(instances) |-> [instances[i] EXCEPT !.cancelled = TRUE]]

Without(s, i) == SubSeq(s, 1, i - 1) \o SubSeq(s, i + 1, Len(s))

(***************************************************************************)
(* The Explore page: the panes and the URL it is mounted with, and the     *)
(* actions dispatched to the store.                                        *)
(***************************************************************************)
lokiPane == Pane("loki-uid", "error", FALSE)
elasticPane == Pane("elastic-uid", "error", FALSE)

LeftInputs ==
    { Undefined, lokiPane, [lokiPane EXCEPT !.loading = TRUE],
      Pane("loki-uid", "custom log line", FALSE) }
RightInputs == {Undefined, elasticPane}
PanesInputs == {[left |-> l, right |-> r] : l \in LeftInputs, r \in RightInputs}

\* the URL parameters that hold the given panes, after `orgId` when given
urlParams(org, explorePanes) ==
    [ key \in (IF org # Null THEN {"orgId"} ELSE {})
                \cup (IF explorePanes.left # Undefined THEN {"left"} ELSE {})
                \cup (IF explorePanes.right # Undefined THEN {"right"} ELSE {}) |->
        IF key = "orgId" THEN org
        ELSE serializeStateToUrlParam(getUrlStateFromPaneState(explorePanes[key])) ]

\* the search parameters Explore is mounted with: none, orgId alone, those
\* of some panes, with and without orgId
UrlInputs ==
    { urlParams(org, p) :
        org \in {Null, Str("1")},
        p \in {q \in PanesInputs : q.left \in {Undefined, lokiPane}} }

\* the panes that an explore action leaves in the store: those it finds, or
\* one of these
PayloadInputs == {p \in PanesInputs : p.left # Undefined /\ ~p.left.loading}

ActionTypes == {"explore/queriesImported", "panel/explore", "location"}

\* the explore reducer puts the panes of the action in the store; the other
\* reducers leave the panes as they are
reducer(explorePanes, action) ==
    IF action.type = "explore/queriesImported"
    THEN action.payload
    ELSE explorePanes

SyncInit ==
    /\ spans = Null
    /\ op = "none"
    /\ search = NoSearch
    /\ textFilter = NoText
    /\ result = Undefined
    /\ expected = NoExpectation
    /\ phase = "idle"
    /\ spanArg = Null
    /\ other = NoCall
    /\ panes \in PanesInputs
    /\ orgId = 1
    /\ location \in {[search |-> params, entries |-> 1, calls |-> 0] : params \in UrlInputs}
    /\ listeners = <<>>
    /\ actions = <<>>
    /\ synced = 0
    /\ NoCalc
    /\ NoStats

\* store.dispatch(action): the reducers run, then the listener middleware
\* starts an instance of the effect when the predicate holds; the instance
\* cancels the others and waits
dispatch ==
    \E type \in ActionTypes, payload \in PayloadInputs \cup {panes} :
        LET action == [type |-> type, payload |-> payload] IN
        /\ Len(actions) < MaxActions
        /\ actions' = Append(actions, type)
        /\ panes' = reducer(panes, action)
        /\ IF predicate(action)
           THEN listeners' = cancelActiveListeners(listeners)
                               \o <<[action |-> Len(actions) + 1, remaining |-> DebounceMs,
                                     cancelled |-> FALSE]>>
           ELSE UNCHANGED listeners
        /\ UNCHANGED <<orgId, location, synced, matcherVars, calcVars, statsVars>>

\* TickMs milliseconds pass
tick ==
    /\ \E i \in 1..Len(listeners) : ~listeners[i].cancelled /\ listeners[i].remaining > 0
    /\ listeners' = [i \in 1..Len(listeners) |->
                        IF listeners[i].cancelled \/ listeners[i].remaining = 0
                        THEN listeners[i]
                        ELSE [listeners[i] EXCEPT !.remaining = @ - TickMs]]
    /\ UNCHANGED <<panes, orgId, location, actions, synced, matcherVars, calcVars, statsVars>>

\* the delay of a cancelled instance rejects: the instance ends there
abort ==
    \E i \in 1..Len(listeners) :
        /\ listeners[i].cancelled
        /\ listeners' = Without(listeners, i)
        /\ UNCHANGED <<panes, orgId, location, actions, synced, matcherVars, calcVars, statsVars>>

\* the delay of an instance is over: the rest of the effect runs
effect ==
    \E i \in 1..Len(listeners) :
        /\ ~listeners[i].cancelled
        /\ listeners[i].remaining = 0
        /\ LET states == urlStates(panes, orgId) IN
           IF urlDiffers(location.search, states)
           THEN location' = partial(location, states, replaceEntry(location.search))
           ELSE UNCHANGED location
        /\ synced' = listeners[i].action
        /\ listeners' = Without(listeners, i)
        /\ UNCHANGED <<panes, orgId, actions, matcherVars, calcVars, statsVars>>

SyncNext ==
    \/ dispatch
    \/ tick
    \/ abort
    \/ effect

SyncSpec == SyncInit /\ [][SyncNext]_vars

\* time passes, and a timer that is due fires
SyncFairSpec == SyncSpec /\ WF_vars(tick) /\ WF_vars(effect)

(***************************************************************************)
(* Properties of useURLSync.                                               *)
(***************************************************************************)
\* the action types of ActionTypes that start with 'explore'
ExploreTypes == {"explore/queriesImported"}

ExploreActions == {n \in 1..Len(actions) : actions[n] \in ExploreTypes}

\* the number of the last explore action dispatched, 0 when there is none
LastExploreAction ==
    IF ExploreActions = {} THEN 0
    ELSE CHOOSE n \in ExploreActions : \A m \in ExploreActions : m <= n

Waiting(instance) == ~instance.cancelled

\* C23: useURLSync debounces the URL updates.  An explore action cancels
\* every instance of the effect still waiting and starts one that waits
\* DebounceMs; an action of another type starts nothing and changes neither
\* the instances nor the URL.  So every instance belongs to an explore
\* action, only the instance of the last explore action is not cancelled,
\* the instance that reads the state is the one of the last explore action
\* with its delay over, and the URL is written in such a step only: never by
\* a cancelled instance.
Debounced ==
    /\ [](/\ \A i \in 1..Len(listeners) :
                /\ listeners[i].action \in ExploreActions
                /\ Waiting(listeners[i]) => listeners[i].action = LastExploreAction
          /\ synced # 0 => synced \in ExploreActions)
    /\ [][/\ synced' # synced =>
                /\ synced' = LastExploreAction
                /\ \E i \in 1..Len(listeners) :
                      listeners[i] = [action |-> synced', remaining |-> 0, cancelled |-> FALSE]
          /\ location' # location => synced' # synced
          /\ Len(actions') > Len(actions) =>
                IF actions'[Len(actions')] \in ExploreTypes
                THEN /\ Len(listeners') = Len(listeners) + 1
                     /\ \A i \in 1..Len(listeners) : ~Waiting(listeners'[i])
                     /\ listeners'[Len(listeners')] =
                            [action |-> Len(actions'), remaining |-> DebounceMs,
                             cancelled |-> FALSE]
                ELSE /\ listeners' = listeners
                     /\ location' = location
                     /\ synced' = synced]_vars

\* a burst of two explore actions TickMs apart: the instance of the first
\* was cancelled in the middle of its delay and has read nothing, the delay
\* of the second is over
WitnessDebounced ==
    /\ actions = <<"explore/queriesImported", "explore/queriesImported">>
    /\ listeners = << [action |-> 1, remaining |-> DebounceMs - TickMs, cancelled |-> TRUE],
                      [action |-> 2, remaining |-> 0, cancelled |-> FALSE] >>
    /\ synced = 0
    /\ location.calls = 0

\* the URL parameter of a pane reflects the pane: it holds the serialized
\* state of the pane, or is missing when there is no such pane
UrlReflects(side) ==
    IF panes[side] = Undefined THEN side \notin DOMAIN location.search
    ELSE /\ side \in DOMAIN location.search
         /\ location.search[side] = serializeStateToUrlParam(getUrlStateFromPaneState(panes[side]))

\* C24: the effect calls location.partial only when the URL's `left` or
\* `right` parameter differs from the serialized state of the corresponding
\* pane; when the URL reflects the panes already, it is left untouched.
PartialOnlyOnDifference ==
    [][location'.calls # location.calls => ~(UrlReflects("left") /\ UrlReflects("right"))]_vars

\* C25: when the effect updates the URL it replaces the current history
\* entry if and only if the URL has neither a `left` nor a `right`
\* parameter; otherwise it pushes one new entry.
ReplaceOnFirstMount ==
    [][location'.calls # location.calls =>
          IF "left" \notin DOMAIN location.search /\ "right" \notin DOMAIN location.search
          THEN location'.entries = location.entries
          ELSE location'.entries = location.entries + 1]_vars

\* Explore mounted on a URL without `left` and `right`: the first update
\* replaced the entry, the update after the next explore action pushed one
WitnessReplaceOnFirstMount ==
    /\ location.calls = 2
    /\ location.entries = 2
    /\ synced = 2

\* the effect of the last explore action has run
Settled == ExploreActions # {} /\ synced = LastExploreAction

HoldsOrgId ==
    "orgId" \in DOMAIN location.search /\ location.search["orgId"] = toString(orgId)

\* C26 as stated, for panes with a left pane: once the effect of the last
\* explore action has run, the URL holds orgId, `left` as the left pane
\* serializes and `right` as the right pane serializes, or no `right` when
\* there is no right pane.
SettledUrlComplete ==
    (Settled /\ panes.left # Undefined) =>
        (HoldsOrgId /\ UrlReflects("left") /\ UrlReflects("right"))

\* C26, amended: the effect of the last explore action runs in the end, and
\* once it has run the URL holds `right` as the right pane serializes, or no
\* `right` when there is no right pane, and `left` as the left pane
\* serializes when there is a left pane; it holds orgId when an effect has
\* written the URL.  A URL that reflected the panes already is not written.
SettledUrlReflectsPanes ==
    /\ [](Settled =>
            /\ UrlReflects("right")
            /\ panes.left # Undefined => UrlReflects("left")
            /\ location.calls > 0 => HoldsOrgId)
    /\ [](ExploreActions # {} => <>Settled)

\* Explore mounted on a URL that holds both panes and no orgId: after an
\* explore action that closes the right pane, the URL has lost `right` and
\* gained orgId
WitnessSettledUrlReflectsPanes ==
    /\ Settled
    /\ panes = [left |-> lokiPane, right |-> Undefined]
    /\ location.calls = 1
    /\ location.entries = 2
    /\ location.search = urlParams(Str("1"), panes)

(***************************************************************************)
(* calculateFieldTransformer (calculateField.ts): the function mapped over *)
(* the frames that the first operator of the pipe (ensureColumns or noop,  *)
(* outside src/) hands on.  A vector is the sequence of its values; a      *)
(* missing option is Undefined, a boolean option Bool(b), a string option  *)
(* Str(s).  The field reducers, the binary operators, getTimeField and     *)
(* getFieldDisplayName are outside src/: the reducers and operators are    *)
(* tables of the ones used here, the time field is the first field of type *)
(* time, the display name of a field is its name.                          *)
(***************************************************************************)
MaxFields == 3   \* generated frames hold at most this many fields

Bool(b) == [kind |-> "boolean", value |-> b]

ReduceRowMode == Str("reduceRow")
BinaryOperationMode == Str("binary")
IndexMode == Str("index")

defaultReduceOptions == [reducer |-> Str("sum")]
defaultBinaryOptions == [left |-> Str(""), operator |-> Str("+"), right |-> Str("")]

\* lodash defaults(object, source): the properties of source fill the
\* properties that object lacks or holds undefined
defaults(object, source) ==
    LET given == IF object = Undefined THEN {} ELSE DOMAIN object IN
    [ key \in given \cup DOMAIN source |->
        IF key \in given /\ object[key] # Undefined THEN object[key] ELSE source[key] ]

RECURSIVE SumOf(_)
SumOf(values) == IF values = <<>> THEN 0 ELSE values[1] + SumOf(Tail(values))

\* fieldReducers: the reducers of the registry that are used here
fieldReducers == [sum |-> [name |-> "Total"], count |-> [name |-> "Count"]]

\* reducer(row, ignoreNulls, nullAsZero)[options.reducer]
reduce(id, row) == IF id = "sum" THEN SumOf(row) ELSE Len(row)

\* binaryOperators: the operations of the registry
binaryOperators == {"+", "-", "*"}

operation(operator, a, b) ==
    IF operator = "+" THEN a + b ELSE IF operator = "-" THEN a - b ELSE a * b

\* AsNumberVector: a boolean as 1 or 0
AsNumber(values) == [i \in 1..Len(values) |-> IF values[i] THEN 1 ELSE 0]

\* ctx.interpolate: the context binds the variable `field` to A
interpolate(text) == IF text = Str("$field") THEN Str("A") ELSE text

\* the first field of a sequence that has the property
FirstWith(fields, Has(_)) ==
    IF \E i \in 1..Len(fields) : Has(fields[i])
    THEN fields[CHOOSE i \in 1..Len(fields) :
                   Has(fields[i]) /\ \A j \in 1..(i - 1) : ~Has(fields[j])]
    ELSE Undefined

\* getTimeField(frame).timeField
getTimeField(frame) == LET IsTime(f) == f.type = "time" IN FirstWith(frame.fields, IsTime)

\* parseFloat of an operand name: the number a leading run of digits
\* writes, NaN without one
RECURSIVE parseDigits(_, _)
parseDigits(text, acc) ==
    IF text = "" \/ ~IsDigit(CharAt(text, 1)) THEN acc
    ELSE parseDigits(SubSeq(text, 2, Len(text)), 10 * acc + DigitValue(CharAt(text, 1)))

NaN == [kind |-> "NaN"]
parseFloat(text) ==
    IF text = "" \/ ~IsDigit(CharAt(text, 1)) THEN NaN
    ELSE [kind |-> "number", value |-> parseDigits(text, 0)]

\* the column a name stands for: the values of the field of that display
\* name (the name of the field), else the constant the name writes
findFieldValuesWithNameOrConstant(frame, name) ==
    LET Named(f) == f.name = name
        f == FirstWith(frame.fields, Named)
        v == parseFloat(name)
    IN  IF name = "" THEN Undefined
        ELSE IF f # Undefined
             THEN Arr(IF f.type = "boolean" THEN AsNumber(f.values) ELSE f.values)
        ELSE IF v # NaN THEN Arr([i \in 1..frame.length |-> v.value])
        ELSE Undefined

\* the creator of getBinaryCreator(options, allFrames), applied to a frame
getBinaryCreator(binaryOptions, frame) ==
    LET left == findFieldValuesWithNameOrConstant(frame, binaryOptions.left.value)
        right == findFieldValuesWithNameOrConstant(frame, binaryOptions.right.value)
        operator == binaryOptions.operator.value
    IN  IF left = Undefined \/ right = Undefined \/ operator \notin binaryOperators
        THEN Undefined
        ELSE Arr([i \in 1..Len(left.items) |->
                    operation(operator, left.items[i], right.items[i])])

\* the creator of getReduceRowCreator(options, allFrames), applied to a frame
getReduceRowCreator(reduceOptions, frame) ==
    LET include == Field(reduceOptions, "include")
        byNames == include # Undefined /\ include.items # <<>>
        matcher(f) == IF byNames THEN f.name \in Range(include.items)
                      ELSE f.type = "number"
        columns == SelectSeq(frame.fields, matcher)
    IN  Arr([i \in 1..frame.length |->
                reduce(reduceOptions.reducer.value,
                       [c \in 1..Len(columns) |-> columns[c].values[i]])])

getNameFromOptions(opts) ==
    LET text(v) == IF v \in {Undefined, Null} THEN "" ELSE v.value
        binary == opts.binary
        part(key) == IF binary = Undefined THEN "" ELSE text(Field(binary, key))
        reducer_ == IF opts.reduce = Undefined THEN Undefined
                    ELSE Field(opts.reduce, "reducer")
    IN  IF opts.alias \notin {Undefined, Null} /\ opts.alias.value # "" THEN opts.alias.value
        ELSE IF opts.mode = BinaryOperationMode
             THEN part("left") \o " " \o part("operator") \o " " \o part("right")
        ELSE IF /\ opts.mode = ReduceRowMode
                /\ reducer_ # Undefined
                /\ reducer_.value \in DOMAIN fieldReducers
             THEN fieldReducers[reducer_.value].name
        ELSE IF opts.mode = IndexMode THEN "Row"
        ELSE "math"

NoConfig == [min |-> Undefined, max |-> Undefined]

\* a callback that keeps the time field whatever timeSeries says
withValuesKeepingTime(opts, frame, values) ==
    LET field == [name |-> getNameFromOptions(opts), type |-> "number",
                  config |-> NoConfig, values |-> values.items]
        timeField == getTimeField(frame)
    IN  IF values = Undefined THEN frame
        ELSE [frame EXCEPT !.fields =
                IF opts.replaceFields = Bool(TRUE)
                THEN IF timeField # Undefined THEN <<timeField, field>> ELSE <<field>>
                ELSE Append(frame.fields, field)]

\* the frame with the created values as a field
withValues(opts, frame, values) ==
    LET field == [name |-> getNameFromOptions(opts), type |-> "number",
                  config |-> NoConfig, values |-> values.items]
        timeField == getTimeField(frame)
    IN  IF values = Undefined THEN frame
        ELSE [frame EXCEPT !.fields =
                IF opts.replaceFields = Bool(TRUE)
                THEN IF timeField # Undefined /\ opts.timeSeries # Bool(FALSE)
                     THEN <<timeField, field>>
                     ELSE <<field>>
                ELSE Append(frame.fields, field)]

\* the frame with the row index as a field
withIndex(opts, frame) ==
    LET f == [name |-> IF opts.alias \in {Undefined, Null} THEN "Row" ELSE opts.alias.value,
              type |-> "number",
              config |-> [min |-> 0, max |-> frame.length - 1],
              values |-> [i \in 1..frame.length |-> i - 1]]
    IN  [frame EXCEPT !.fields =
            IF opts.replaceFields = Bool(TRUE) THEN <<f>> ELSE Append(frame.fields, f)]

Returned(frames) == [kind |-> "frames", frames |-> frames]

\* options as the operator leaves them: the alias interpolated, and the
\* reduce options, when given, filled with the defaults
interpolated(opts) ==
    [opts EXCEPT !.alias = IF @ \in {Undefined, Null} THEN @ ELSE interpolate(@)]

\* the callback of map: what it returns for the frames, and the options after
calculateField(opts, frames) ==
    LET mode == IF opts.mode \in {Undefined, Null} THEN ReduceRowMode ELSE opts.mode
        reduceOptions == defaults(opts.reduce, defaultReduceOptions)
        filled == IF mode = ReduceRowMode /\ opts.reduce # Undefined
                  THEN [opts EXCEPT !.reduce = reduceOptions] ELSE opts
        binaryOptions ==
            defaults([left |-> interpolate(Field(opts.binary, "left")),
                      operator |-> Field(opts.binary, "operator"),
                      right |-> interpolate(Field(opts.binary, "right"))],
                     defaultBinaryOptions)
        each(create(_)) ==
            Returned([i \in 1..Len(frames) |-> withValues(filled, frames[i], create(frames[i]))])
        reduceRow(frame) == getReduceRowCreator(reduceOptions, frame)
        binary(frame) == getBinaryCreator(binaryOptions, frame)
    IN  [ options |-> filled,
          result |->
            IF mode = ReduceRowMode
            THEN IF reduceOptions.reducer.value \notin DOMAIN fieldReducers
                 THEN Thrown("Unknown reducer")
                 ELSE each(reduceRow)
            ELSE IF mode = BinaryOperationMode THEN each(binary)
            ELSE IF mode = IndexMode
                 THEN Returned([i \in 1..Len(frames) |-> withIndex(opts, frames[i])])
            ELSE Returned(frames) ]

(***************************************************************************)
(* The frames and the options the transformer is given.                    *)
(***************************************************************************)
CalcField(name, type, values) ==
    [name |-> name, type |-> type, config |-> NoConfig, values |-> values]

FieldPool ==
    << CalcField("A", "number", <<1, 2>>),
       CalcField("time", "time", <<10, 20>>),
       CalcField("B", "number", <<3, 4>>),
       CalcField("flag", "boolean", <<TRUE, FALSE>>),
       CalcField("time2", "time", <<11, 21>>) >>

Frame(fields) ==
    [ name |-> "series", refId |-> "A",
      length |-> IF fields = <<>> THEN 0 ELSE 2,
      fields |-> fields ]

Frames == {Frame(Pick(FieldPool, c)) : c \in SmallSubsets(Len(FieldPool), MaxFields)}

\* one frame, no frame, or two frames that ensureColumns does not join
DataInputs ==
    {<<frame>> : frame \in Frames}
        \cup {<<>>, <<Frame(<<FieldPool[1]>>), Frame(<<FieldPool[3], FieldPool[4]>>)>>}

ReduceInputs ==
    { Undefined,
      [reducer |-> Str("sum")],
      [include |-> Arr(<<"A", "B">>)],
      [reducer |-> Str("count"), include |-> Arr(<<>>)],
      [reducer |-> Str("median")] }

BinaryInputs ==
    {Undefined, [operator |-> Str("*"), right |-> Str("2")]}
        \cup { [left |-> Str(l), operator |-> Str("+"), right |-> Str("B")] :
                 l \in {"A", "2x", "", "missing", "flag", "$field"} }
        \cup { [left |-> Str("A"), operator |-> Str(o), right |-> Str(r)] :
                 o \in {"-", "?"}, r \in {"B", "2", "missing"} }

OptionsInputs ==
    { [ mode |-> m.mode, reduce |-> m.reduce, binary |-> m.binary,
        timeSeries |-> t, replaceFields |-> r, alias |-> a ] :
        m \in { [mode |-> mode, reduce |-> reduceOptions, binary |-> Undefined] :
                  mode \in {Undefined, ReduceRowMode}, reduceOptions \in ReduceInputs }
              \cup { [mode |-> BinaryOperationMode, reduce |-> Undefined, binary |-> b] :
                       b \in BinaryInputs }
              \cup { [mode |-> mode, reduce |-> Undefined, binary |-> Undefined] :
                       mode \in {IndexMode, Str("unknown")} },
        t \in {Undefined, Bool(TRUE), Bool(FALSE)},
        r \in {Undefined, Bool(TRUE)},
        a \in {Undefined, Str("$field")} }

\* no matcher is invoked
NoMatcher ==
    /\ spans = Null
    /\ op = "none"
    /\ search = NoSearch
    /\ textFilter = NoText
    /\ result = Undefined
    /\ expected = NoExpectation
    /\ phase = "idle"
    /\ spanArg = Null
    /\ other = NoCall

CalcInit ==
    /\ options \in OptionsInputs
    /\ data \in DataInputs
    /\ transformed = NoCall
    /\ NoMatcher
    /\ NoSync
    /\ NoStats

\* the source emits the frames: the operator interpolates the alias and
\* its map callback transforms the frames
Transform ==
    LET out == calculateField(interpolated(options), data) IN
    /\ transformed = NoCall
    /\ options' = out.options
    /\ transformed' = out.result
    /\ UNCHANGED <<data, matcherVars, syncVars, statsVars>>

CalcNext == Transform

CalcSpec == CalcInit /\ [][CalcNext]_vars

(***************************************************************************)
(* The effect of the transformer on a frame.                               *)
(***************************************************************************)
\* the mode the options stand for
ModeOf(opts) == IF opts.mode \in {Undefined, Null} THEN ReduceRowMode ELSE opts.mode

\* the operand or the operator of the binary options, as it is looked up
BinaryPart(key) ==
    LET v == interpolate(Field(options.binary, key)) IN
    IF v # Undefined THEN v.value ELSE IF key = "operator" THEN "+" ELSE ""

\* a name that is neither a field of the frame nor a number
Unresolvable(frame, name) ==
    \/ name = ""
    \/ /\ \A i \in 1..Len(frame.fields) : frame.fields[i].name # name
       /\ CharAt(name, 1) \notin {"0", "1", "2", "3", "4", "5", "6", "7", "8", "9"}

\* the binary creator yields no values for the frame
NoValues(frame) ==
    /\ ModeOf(options) = BinaryOperationMode
    /\ \/ Unresolvable(frame, BinaryPart("left"))
       \/ Unresolvable(frame, BinaryPart("right"))
       \/ BinaryPart("operator") \notin {"+", "-", "*"}

\* the fields are those of the frame followed by the created field, or, when
\* the fields are replaced, its first time field (unless timeSeries is false)
\* and the created field
FieldsWith(frame, fields) ==
    LET created == fields[Len(fields)]
        times == {i \in 1..Len(frame.fields) : frame.fields[i].type = "time"}
    IN  /\ fields # <<>>
        /\ created.type = "number"
        /\ IF options.replaceFields # Bool(TRUE)
           THEN fields = Append(frame.fields, created)
           ELSE IF times # {} /\ options.timeSeries # Bool(FALSE)
                THEN \E t \in times :
                        /\ \A j \in times : t <= j
                        /\ fields = <<frame.fields[t], created>>
                ELSE fields = <<created>>

\* C27: in the reduce-row and the binary mode every output frame keeps the
\* properties of its frame; a frame for which the binary creator yields no
\* values is returned unchanged; any other frame has its fields followed by
\* exactly one new number field, or, with replaceFields, the fields
\* [timeField, newField] when it has a time field and timeSeries is not
\* false, else [newField].
FrameEffect ==
    (transformed.kind = "frames" /\ ModeOf(options) \in {ReduceRowMode, BinaryOperationMode}) =>
        /\ Len(transformed.frames) = Len(data)
        /\ \A i \in 1..Len(data) :
            LET frame == data[i]
                out == transformed.frames[i]
            IN  /\ DOMAIN out = DOMAIN frame
                /\ \A key \in DOMAIN frame \ {"fields"} : out[key] = frame[key]
                /\ IF NoValues(frame) THEN out = frame
                   ELSE FieldsWith(frame, out.fields)

\* two frames in the binary mode: the first lacks the right operand and is
\* returned as it is, the second has the new field after its two fields
WitnessFrameEffect ==
    /\ transformed.kind = "frames"
    /\ options.mode = BinaryOperationMode
    /\ Len(data) = 2
    /\ NoValues(data[1])
    /\ transformed.frames[1] = data[1]
    /\ ~NoValues(data[2])
    /\ Len(transformed.frames[2].fields) = Len(data[2].fields) + 1

(***************************************************************************)
(* RuleStats (RuleStats.tsx): the totals of the rules of the namespaces.   *)
(* The stats and the totals are functions from keys to counts; a rendered  *)
(* node is its key and the count its text shows.  The members of           *)
(* AlertInstanceState and PromAlertingRuleState are outside src/ and have  *)
(* the values of those enumerations; the totals hold keys of emptyStats.   *)
(***************************************************************************)
MaxNamespaces == 2   \* the `namespaces` prop holds at most this many namespaces

emptyStats ==
    [ total |-> 0, recording |-> 0, alerting |-> 0, pending |-> 0,
      inactive |-> 0, paused |-> 0, error |-> 0 ]

\* stats[key] as a condition: a key that is absent, or zero, is falsy
Truthy(stats, key) == key \in DOMAIN stats /\ stats[key] # 0

Badge(key, stats, counted) == [key |-> key, count |-> stats[counted]]

getComponentsFromStats(stats) ==
    (IF Truthy(stats, "Alerting") THEN <<Badge("firing", stats, "Alerting")>> ELSE <<>>)
    \o (IF Truthy(stats, "error") THEN <<Badge("errors", stats, "error")>> ELSE <<>>)
    \o (IF Truthy(stats, "Pending") THEN <<Badge("pending", stats, "Pending")>> ELSE <<>>)
    \o (IF Truthy(stats, "Normal") /\ Truthy(stats, "paused")
        THEN <<Badge("paused", stats, "Normal")>> ELSE <<>>)
    \o (IF Truthy(stats, "Normal") /\ ~Truthy(stats, "paused")
        THEN <<Badge("inactive", stats, "Normal")>> ELSE <<>>)
    \o (IF Truthy(stats, "recording") THEN <<Badge("recording", stats, "recording")>> ELSE <<>>)

\* namespaces.forEach(({ totals }) => { for (key in totals) stats[key] += totals[key] })
RECURSIVE addTotals(_, _)
addTotals(stats, list) ==
    IF list = <<>> THEN stats
    ELSE addTotals([key \in DOMAIN stats |->
                      IF key \in DOMAIN list[1].totals
                      THEN stats[key] + list[1].totals[key] ELSE stats[key]],
                   Tail(list))

\* sum(Object.values(stats))
RECURSIVE sum(_, _)
sum(stats, keys) ==
    IF keys = {} THEN 0
    ELSE LET key == CHOOSE k \in keys : TRUE IN stats[key] + sum(stats, keys \ {key})

\* a component that looks at the stats once the totals are added
RuleStatsOfTotals(list) ==
    LET stats == addTotals(emptyStats, list)
        statsComponents == getComponentsFromStats(stats)
        hasStats == statsComponents # <<>>
        total == sum(stats, DOMAIN stats)
    IN  [ hasStats |-> hasStats,
          total |-> total,
          children |-> IF hasStats
                       THEN <<[key |-> "total", count |-> total]>> \o statsComponents
                       ELSE <<>> ]

\* what the component returns: whether the stats are shown, the total it
\* computed, and the nodes inside the Stack
RuleStats(list) ==
    LET stats == emptyStats
        statsComponents == getComponentsFromStats(stats)
        hasStats == statsComponents # <<>>
        summed == addTotals(stats, list)
        total == sum(summed, DOMAIN summed)
    IN  [ hasStats |-> hasStats,
          total |-> total,
          children |-> IF hasStats
                       THEN <<[key |-> "total", count |-> total]>> \o statsComponents
                       ELSE <<>> ]

TotalsInputs ==
    { [alerting |-> 1],
      [error |-> 2],
      [recording |-> 1, paused |-> 1],
      [alerting |-> 2, pending |-> 1, inactive |-> 3],
      [inactive |-> 1, paused |-> 1, error |-> 1],
      [total |-> 4, recording |-> 4],
      [pending |-> 0] }

RECURSIVE ListsOf(_, _)
ListsOf(S, n) ==
    IF n = 0 THEN {<<>>}
    ELSE ListsOf(S, n - 1) \cup {Append(l, x) : l \in ListsOf(S, n - 1), x \in S}

NamespacesInputs == ListsOf({[totals |-> t] : t \in TotalsInputs}, MaxNamespaces)

StatsInit ==
    /\ namespaces \in NamespacesInputs
    /\ rendered = NoCall
    /\ NoMatcher
    /\ NoSync
    /\ NoCalc

\* the component is mounted
Render ==
    /\ rendered = NoCall
    /\ rendered' = RuleStats(namespaces)
    /\ UNCHANGED <<namespaces, matcherVars, syncVars, calcVars>>

\* the parent passes other namespaces and the component renders again
Rerender ==
    \E list \in NamespacesInputs :
        /\ rendered # NoCall
        /\ list # namespaces
        /\ namespaces' = list
        /\ rendered' = RuleStats(list)
        /\ UNCHANGED <<matcherVars, syncVars, calcVars>>

StatsNext == Render \/ Rerender

StatsSpec == StatsInit /\ [][StatsNext]_vars

\* C28: RuleStats computes its badges and hasStats from the zero-initialised
\* stats, before the totals of the namespaces are added: whatever the
\* totals are, hasStats is false and neither the total of the rules nor a
\* badge is rendered.
NothingRendered ==
    rendered # NoCall => ~rendered.hasStats /\ rendered.children = <<>>

\* two namespaces with errors and alerting rules: the total is computed,
\* and nothing is shown
WitnessNothingRendered ==
    /\ rendered # NoCall
    /\ Len(namespaces) = 2
    /\ \A i \in 1..2 : "error" \in DOMAIN namespaces[i].totals
    /\ rendered.total = 5
    /\ rendered.children = <<>>

====
